---- MODULE Spec2Model ----
(***************************************************************************)
(* State-machine model of the SpareMails backend: the temporary-address    *)
(* registry, the ingestion entry points (generic webhook, raw MIME, SMTP   *)
(* session), and the four scheduled sweeps.                                *)
(*                                                                         *)
(* Time is counted in minutes.  Every request handler is a sequence of     *)
(* steps, one per database or blob-store round trip; the code that runs    *)
(* between two awaits runs together with the reply of the first one, and   *)
(* a row's createdAt/updatedAt is the time its statement is applied.       *)
(* Handlers of different requests interleave freely at step granularity.   *)
(***************************************************************************)
EXTENDS Integers, Sequences, FiniteSets, TLC

\* ---------------------------------------------------------------- bounds
MaxTicks == 2
MaxAddr == 1
MaxMsgs == 1
MaxAtt == 2
MaxProcs == 2
MaxTtl == 1
MaxProvisioned == 2
MaxStored == 2
MaxHtml == 3
MaxStarts == 2

\* ------------------------------------------------------ program constants
MinExpiryMinutes == 1
MaxExpiryMinutes == 1440
AttachmentRetentionDays == 7
MessageRetentionDays == 30
InactiveRetentionDays == 7
maxAttempts == 10
MinutesPerDay == 24 * 60

Procs == 1..MaxProcs
Emails == {"a@x", "b@x"}
\* Attachment file names are sequences of characters; <<>> is a part
\* without a file name.
FileNames == {<<"f">>}
SafeChars == {"f", "g", ".", "-", "0", "1", "2", "3", "4", "5", "6", "7", "8", "9"}
TtlInputs == (0..MaxTtl) \cup {MaxExpiryMinutes + 1}
\* The values of expiryMinutes around the two ends of the accepted range.
TtlBoundaries == {MinExpiryMinutes - 1, MinExpiryMinutes, MaxExpiryMinutes, MaxExpiryMinutes + 1}

VARIABLES
    now,              \* wall clock (minutes)
    ticks,            \* number of clock advances so far (bounds the run)
    temporaryEmails,  \* table temporary_emails
    receivedEmails,   \* table received_emails
    emailAttachments, \* table email_attachments
    files,            \* uploads/attachments on local disk: set of file paths
    cloud,            \* Cloudinary: set of public ids
    nextId,           \* fresh ids per table (UUIDs in the code)
    procs,            \* in-flight request handlers
    reply,            \* the answer given by the step just taken, if it ended a request
    domains,          \* table domains
    scheduler         \* the SchedulerService singleton and the cron tasks it scheduled

vars == <<now, ticks, temporaryEmails, receivedEmails, emailAttachments, files, cloud, nextId, procs,
          reply, domains, scheduler>>

NoRow == [id |-> 0, email |-> "", domain |-> "", isActive |-> FALSE, expiresAt |-> 0, updatedAt |-> 0]

\* The content of a mail as it arrives: the sender as the text of the From
\* header (or of the webhook's from field), the HTML body and the text body,
\* each a sequence of characters; <<>> is an absent value.  An address
\* (s@y, unknown@sender.com) counts as one character.
NoMail == [from |-> <<>>, html |-> <<>>, text |-> <<>>]
PlainMail == [from |-> <<"s@y">>, html |-> <<>>, text |-> <<>>]

Idle ==
    [op |-> "idle", pc |-> "idle", email |-> "", id |-> 0, at |-> 0,
     ttl |-> 0, custom |-> "", attempts |-> 0, made |-> 0,
     rcpts |-> <<>>, atts |-> <<>>, todo |-> <<>>, refs |-> <<>>, failed |-> 0,
     mail |-> NoMail, isRead |-> FALSE, domain |-> "", isActive |-> FALSE]

\* What a step reports when it ends a request or an ingestion call:
\* res is the outcome of the call, status the HTTP status (0: none),
\* session the SMTP completion callback ("": not called), refs and failed
\* the attachments the call stored and the store calls that failed.
NoReply ==
    [op |-> "", res |-> "", status |-> 0, id |-> 0, made |-> 0,
     session |-> "", refs |-> <<>>, failed |-> 0, sweep |-> ""]

\* ------------------------------------------------------------ pure helpers

\* (mutation) the comparison of isExpired() turned around
isExpiredInverted(row, t) == t < row.expiresAt

\* TemporaryEmail.isExpired(): new Date() > this.expiresAt
isExpired(row, t) == t > row.expiresAt

\* sanitizeFilename: filename.replace(/[^a-zA-Z0-9.-]/g, '_')
sanitizeFilename(name) ==
    [i \in 1..Len(name) |-> IF name[i] \in SafeChars THEN name[i] ELSE "_"]

\* Sequences over S of length at most n.
SeqsUpTo(S, n) == UNION {[1..k -> S] : k \in 0..n}

\* (mutation) the expiry is clamped to one hour instead of taken as given
generateExpiryDateClamped(t, minutes) == t + (IF minutes > 60 THEN 60 ELSE minutes)

\* generateExpiryDate(minutes): now + minutes
generateExpiryDate(t, minutes) == t + minutes

\* ------------------------------------------------------ message content
\* String.prototype.toLowerCase / the i flag, on the letters that occur in
\* upper case in the bodies.
lowerChar(c) == CASE c = "S" -> "s" [] c = "J" -> "j" [] OTHER -> c

\* \w of the regular expressions.
WordChars == {"a", "b", "c", "e", "f", "i", "j", "m", "p", "r", "s", "t", "v", "x", "S", "J"}

ScriptOpen == <<"<", "s", "c", "r", "i", "p", "t">>
ScriptClose == <<"<", "/", "s", "c", "r", "i", "p", "t", ">">>
IframeOpen == <<"<", "i", "f", "r", "a", "m", "e">>
IframeClose == <<"<", "/", "i", "f", "r", "a", "m", "e", ">">>
JavascriptUri == <<"j", "a", "v", "a", "s", "c", "r", "i", "p", "t", ":">>

\* pat (in lower case) occurs in s at position i, letter case ignored.
matchesAt(s, i, pat) ==
    /\ i + Len(pat) - 1 <= Len(s)
    /\ \A k \in 1..Len(pat) : lowerChar(s[i + k - 1]) = pat[k]

\* The first position from i on where pat occurs in s; 0 when there is none.
indexFrom(s, i, pat) ==
    LET hits == {j \in i..Len(s) : matchesAt(s, j, pat)}
    IN  IF hits = {} THEN 0 ELSE CHOOSE j \in hits : \A k \in hits : j <= k

\* s.replace(/<tag\b[^<]*(?:(?!<\/tag>)<[^<]*)*<\/tag>/gi, ''), one pass from
\* position i: an opening <tag at a word boundary matches up to the first
\* closing tag after it and is dropped with it; an opening tag with no
\* closing tag after it stays.
RECURSIVE removeElements(_, _, _, _)
removeElements(s, i, open, close) ==
    IF i > Len(s) THEN <<>>
    ELSE LET after == i + Len(open)
             opens == matchesAt(s, i, open) /\ (after > Len(s) \/ s[after] \notin WordChars)
             j == IF opens THEN indexFrom(s, after, close) ELSE 0
         IN  IF j # 0 THEN removeElements(s, j + Len(close), open, close)
             ELSE <<s[i]>> \o removeElements(s, i + 1, open, close)

\* s.replace(/pat/gi, ''), one pass from position i.
RECURSIVE removeAll(_, _, _)
removeAll(s, i, pat) ==
    IF i > Len(s) THEN <<>>
    ELSE IF matchesAt(s, i, pat) THEN removeAll(s, i + Len(pat), pat)
    ELSE <<s[i]>> \o removeAll(s, i + 1, pat)

\* (mutation) a body with a script element in it is dropped whole
cleanHtmlContentDroppingBody(html) ==
    IF \E i \in 1..Len(html) : matchesAt(html, i, ScriptOpen) THEN <<>> ELSE html

\* cleanHtmlContent: the three replacements, one after the other.
cleanHtmlContent(html) ==
    removeAll(removeElements(removeElements(html, 1, ScriptOpen, ScriptClose),
                             1, IframeOpen, IframeClose),
              1, JavascriptUri)

\* String.prototype.trim
trim(s) ==
    LET inked == {i \in 1..Len(s) : s[i] # " "}
    IN  IF inked = {} THEN <<>>
        ELSE SubSeq(s, CHOOSE a \in inked : \A b \in inked : a <= b,
                       CHOOSE a \in inked : \A b \in inked : a >= b)

\* The addresses a sender can have.
SenderAddrs == {"s@y", "unknown@sender.com"}

\* The isEmail validator of the model: the value is a bare address.
isEmail(v) == Len(v) = 1 /\ v[1] \in SenderAddrs

\* extractNameFromEmail: email.match(/^(.+?)\s*<.+>$/), group 1 trimmed;
\* <<>> stands for undefined.
extractNameFromEmail(email) ==
    LET n == Len(email)
        ks == {k \in 1..n :
                 \E j \in (k + 1)..(n - 2) :
                    /\ email[j] = "<" /\ email[n] = ">"
                    /\ \A i \in (k + 1)..(j - 1) : email[i] = " "}
    IN  IF ks = {} THEN <<>>
        ELSE trim(SubSeq(email, 1, CHOOSE k \in ks : \A m \in ks : k <= m))

\* parsed.from of mailparser for a From header: the address between the
\* brackets and the display name before them, or the whole text as the
\* address; NoFrom when the header is absent.
NoFrom == [value |-> <<>>, text |-> <<>>]
addressparser(text) ==
    LET n == Len(text)
        lts == {j \in 1..n : text[j] = "<"}
        lt == IF lts = {} THEN 0 ELSE CHOOSE j \in lts : \A k \in lts : j <= k
    IN  IF text = <<>> THEN NoFrom
        ELSE IF lt # 0 /\ lt + 1 < n /\ text[n] = ">"
        THEN [value |-> <<[address |-> SubSeq(text, lt + 1, n - 1),
                           name |-> trim(SubSeq(text, 1, lt - 1))]>>,
              text |-> text]
        ELSE [value |-> <<[address |-> text, name |-> <<>>]>>, text |-> text]

\* extractEmailAddress / extractEmailName on parsed.from
extractEmailAddress(from) ==
    IF from = NoFrom THEN <<>>
    ELSE IF from.value # <<>> THEN from.value[1].address
    ELSE from.text

extractEmailName(from) ==
    IF from = NoFrom THEN <<>>
    ELSE IF from.value # <<>> THEN from.value[1].name
    ELSE <<>>

\* The columns processWebhookEmail gives a new row: fromEmail is the sender
\* text as it came.
webhookFields(mail) ==
    [fromEmail |-> mail.from,
     fromName |-> extractNameFromEmail(mail.from),
     textContent |-> mail.text,
     htmlContent |-> IF mail.html = <<>> THEN <<>> ELSE cleanHtmlContent(mail.html)]

\* The columns processIncomingEmail gives a new row.
rawFields(mail) ==
    [fromEmail |-> extractEmailAddress(addressparser(mail.from)),
     fromName |-> extractEmailName(addressparser(mail.from)),
     textContent |-> mail.text,
     htmlContent |-> IF mail.html = <<>> THEN <<>> ELSE cleanHtmlContent(mail.html)]

\* The mail the SMTP session hands to processWebhookEmail:
\* fromEmail: parsed.from?.text || 'unknown@sender.com'
smtpMail(mail) ==
    [mail EXCEPT !.from = IF addressparser(mail.from).text = <<>>
                          THEN <<"unknown@sender.com">> ELSE addressparser(mail.from).text]

\* TemporaryEmail.findOne({where: {email, isActive: true}})
findOneActive(email) ==
    LET hit == {r \in temporaryEmails : r.email = email /\ r.isActive}
    IN  IF hit = {} THEN NoRow ELSE CHOOSE r \in hit : TRUE

\* TemporaryEmail.findByPk(id)
findByPk(id) ==
    LET hit == {r \in temporaryEmails : r.id = id}
    IN  IF hit = {} THEN NoRow ELSE CHOOSE r \in hit : TRUE

\* (mutation) the deactivation also overwrites expiresAt with the current time
updateIsActiveFalseAndExpire(id, t) ==
    {IF r.id = id THEN [r EXCEPT !.isActive = FALSE, !.expiresAt = t, !.updatedAt = t] ELSE r
       : r \in temporaryEmails}

\* (mutation) the deactivation deletes the row
updateIsActiveFalseDestroying(id, t) == {r \in temporaryEmails : r.id # id}

\* instance.update(values): UPDATE ... SET <fields>, updated_at WHERE id = ?
\* (no row is touched when the row has been deleted meanwhile)
updateIsActiveFalse(id, t) ==
    {IF r.id = id THEN [r EXCEPT !.isActive = FALSE, !.updatedAt = t] ELSE r : r \in temporaryEmails}

\* (mutation) the new lifetime is added to the old expiresAt
updateExpiresAtAdding(id, exp, t) ==
    {IF r.id = id THEN [r EXCEPT !.expiresAt = @ + (exp - t), !.updatedAt = t] ELSE r : r \in temporaryEmails}

updateExpiresAt(id, exp, t) ==
    {IF r.id = id THEN [r EXCEPT !.expiresAt = exp, !.updatedAt = t] ELSE r : r \in temporaryEmails}

\* A handler slot is free when no request runs in it.  Slots are
\* interchangeable, so a new request takes the lowest free one.
Free(p) ==
    /\ procs[p].pc = "idle"
    /\ \A q \in Procs : q < p => procs[q].pc # "idle"

\* The handler in slot p goes on with local state r.
Goto(p, r, pc) ==
    /\ procs' = [procs EXCEPT ![p] = [r EXCEPT !.pc = pc]]
    /\ reply' = NoReply

\* The handler in slot p answers and its slot is released.
Answer(p, r, res, status) ==
    /\ procs' = [procs EXCEPT ![p] = Idle]
    /\ reply' = [NoReply EXCEPT !.op = r.op, !.res = res, !.status = status, !.id = r.id,
                                !.made = r.made, !.refs = r.refs, !.failed = r.failed]

\* The four sweeps the scheduler runs.
SweepNames == {"expired", "messages", "attachments", "inactive"}

\* The four cron.schedule calls of start(): four new running tasks are added
\* to the tasks node-cron keeps (cron.getTasks()).
schedule(tasks) ==
    tasks \cup {[id |-> Cardinality(tasks) + i, name |-> n, running |-> TRUE] :
                  <<i, n>> \in {<<1, "expired">>, <<2, "messages">>, <<3, "attachments">>, <<4, "inactive">>}}

\* ---------------------------------------------------------------- Init
Init ==
    /\ now = 0
    /\ ticks = 0
    /\ temporaryEmails = {}
    /\ receivedEmails = {}
    /\ emailAttachments = {}
    /\ files = {}
    /\ cloud = {}
    /\ nextId = [addr |-> 1, msg |-> 1, att |-> 1]
    /\ procs = [p \in Procs |-> Idle]
    /\ reply = NoReply
    /\ domains = {[domain |-> "x", isActive |-> TRUE]}
    /\ scheduler = [isRunning |-> TRUE, tasks |-> schedule({})]

\* The clock advances by d minutes.
Tick(d) ==
    /\ ticks < MaxTicks
    /\ now' = now + d
    /\ ticks' = ticks + 1
    /\ reply' = NoReply
    /\ UNCHANGED <<temporaryEmails, receivedEmails, emailAttachments, files, cloud, nextId, procs>>
    /\ UNCHANGED <<domains, scheduler>>

\* The domains table and the scheduler stay as they are.
Elsewhere == UNCHANGED <<domains, scheduler>>

DbUnchanged == UNCHANGED <<temporaryEmails, receivedEmails, emailAttachments, files, cloud, nextId>>
ClockUnchanged == UNCHANGED <<now, ticks>>

\* ------------------------------------------------ createTemporaryEmail
\* Validation of expiryMinutes, then the candidate loop is entered.
\* custom = "" stands for an omitted customName (random candidates).
\* generateTemporaryEmail: `${username}@${domain}`
generateTemporaryEmail(domain, username) == username \o "@" \o domain

\* The user names generateRandomUsername draws from.
Usernames == {"a", "b"}
randomEmails(domain) == {generateTemporaryEmail(domain, u) : u \in Usernames}

\* The custom name a requested address was made from.
usernameOf(email) ==
    CASE email = "a@x" -> "a" [] email = "b@x" -> "b" [] email = "A@x" -> "A" [] OTHER -> ""

\* createTemporaryEmail up to the loop: the expiry is validated, the active
\* domains are read, and the requested domain is taken if it is among them,
\* any active domain otherwise; with no active domain the answer is 500.
CreateRequest(p, customName, requestedDomain, ttl) ==
    /\ Free(p)
    /\ LET r == [Idle EXCEPT !.op = "create", !.ttl = ttl]
           availableDomains == {d.domain : d \in {x \in domains : x.isActive}}
       IN  IF ttl < MinExpiryMinutes \/ ttl > MaxExpiryMinutes
           THEN Answer(p, r, "validation", 400)
           ELSE IF availableDomains = {}
           THEN Answer(p, r, "nodomain", 500)
           ELSE \E selectedDomain \in (IF requestedDomain \in availableDomains
                                        THEN {requestedDomain} ELSE availableDomains) :
                   Goto(p, [r EXCEPT !.domain = selectedDomain,
                                     !.custom = IF customName = "" THEN ""
                                                ELSE generateTemporaryEmail(selectedDomain, customName)],
                        "find")
    /\ DbUnchanged /\ ClockUnchanged /\ Elsewhere

\* A request for the address custom (none: a random one) with no domain
\* asked for.
CreateStart(p, custom, ttl) == CreateRequest(p, usernameOf(custom), "", ttl)

\* (mutation) the loop gives up one collision too late
CreateFindOneMore(p) ==
    /\ procs[p].op = "create" /\ procs[p].pc = "find"
    /\ \E cand \in (IF procs[p].custom = "" THEN randomEmails(procs[p].domain) ELSE {procs[p].custom}) :
         LET r == [procs[p] EXCEPT !.attempts = @ + 1]
             existing == {x \in temporaryEmails : x.email = cand}
         IN  IF existing = {}
             THEN Goto(p, [r EXCEPT !.email = cand, !.at = now, !.attempts = 0, !.custom = ""], "insert")
             ELSE IF r.attempts > maxAttempts
                  THEN Answer(p, r, "exhausted", 500)
                  ELSE Goto(p, r, "find")
    /\ DbUnchanged /\ ClockUnchanged /\ Elsewhere

\* One iteration of the do/while: pick the candidate, look it up.
CreateFind(p) ==
    /\ procs[p].op = "create" /\ procs[p].pc = "find"
    /\ \E cand \in (IF procs[p].custom = "" THEN randomEmails(procs[p].domain) ELSE {procs[p].custom}) :
         LET r == [procs[p] EXCEPT !.attempts = @ + 1]
             existing == {x \in temporaryEmails : x.email = cand}
         IN  IF existing = {}
             THEN Goto(p, [r EXCEPT !.email = cand, !.at = now, !.attempts = 0, !.custom = ""], "insert")
             ELSE IF r.attempts >= maxAttempts
                  THEN Answer(p, r, "exhausted", 500)
                  ELSE Goto(p, r, "find")
    /\ DbUnchanged /\ ClockUnchanged /\ Elsewhere

\* (mutation) the table has no unique index on email
CreateInsertNoIndex(p, cap) ==
    /\ procs[p].op = "create" /\ procs[p].pc = "insert"
    /\ LET r == procs[p] IN
       \/ /\ nextId.addr <= cap
          /\ temporaryEmails' = temporaryEmails \cup
               {[id |-> nextId.addr, email |-> r.email, domain |-> r.domain, isActive |-> TRUE,
                 expiresAt |-> generateExpiryDate(r.at, r.ttl), updatedAt |-> r.at]}
          /\ nextId' = [nextId EXCEPT !.addr = @ + 1]
          /\ Answer(p, [r EXCEPT !.id = nextId.addr], "created", 201)
       \/ /\ Answer(p, r, "error", 500)
          /\ UNCHANGED <<temporaryEmails, nextId>>
    /\ UNCHANGED <<receivedEmails, emailAttachments, files, cloud>> /\ ClockUnchanged /\ Elsewhere

\* TemporaryEmail.create: the unique index on email rejects a duplicate
\* (SequelizeUniqueConstraintError, which the global errorHandler answers
\* with 409); any other rejection of the insert is answered with 500.  The
\* table holds at most cap rows.
CreateInsertUpTo(p, cap) ==
    /\ procs[p].op = "create" /\ procs[p].pc = "insert"
    /\ LET r == procs[p] IN
       IF \E x \in temporaryEmails : x.email = r.email
       THEN /\ Answer(p, r, "duplicate", 409)
            /\ UNCHANGED <<temporaryEmails, nextId>>
       ELSE \/ /\ nextId.addr <= cap
               /\ temporaryEmails' = temporaryEmails \cup
                    {[id |-> nextId.addr, email |-> r.email, domain |-> r.domain, isActive |-> TRUE,
                      expiresAt |-> generateExpiryDate(r.at, r.ttl), updatedAt |-> r.at]}
               /\ nextId' = [nextId EXCEPT !.addr = @ + 1]
               /\ Answer(p, [r EXCEPT !.id = nextId.addr], "created", 201)
            \/ /\ Answer(p, r, "error", 500)   \* the store rejects the insert
               /\ UNCHANGED <<temporaryEmails, nextId>>
    /\ UNCHANGED <<receivedEmails, emailAttachments, files, cloud>> /\ ClockUnchanged /\ Elsewhere

CreateInsert(p) == CreateInsertUpTo(p, MaxAddr)

\* ------------------------------------------------ extendTemporaryEmail
ExtendStart(p, id, minutes) ==
    /\ Free(p)
    /\ LET r == [Idle EXCEPT !.op = "extend", !.id = id, !.ttl = minutes] IN
       IF minutes < MinExpiryMinutes \/ minutes > MaxExpiryMinutes
       THEN Answer(p, r, "validation", 400)
       ELSE Goto(p, r, "read")
    /\ DbUnchanged /\ ClockUnchanged /\ Elsewhere

\* (mutation) extend refuses a row whose expiresAt has passed
ExtendReadCheckingExpiry(p) ==
    /\ procs[p].op = "extend" /\ procs[p].pc = "read"
    /\ LET row == findByPk(procs[p].id)
           r == [procs[p] EXCEPT !.at = now]
       IN  IF row = NoRow
           THEN Answer(p, r, "notfound", 404)
           ELSE IF ~row.isActive \/ isExpired(row, now)
                THEN Answer(p, r, "inactive", 400)
                ELSE Goto(p, r, "write")
    /\ DbUnchanged /\ ClockUnchanged /\ Elsewhere

ExtendRead(p) ==
    /\ procs[p].op = "extend" /\ procs[p].pc = "read"
    /\ LET row == findByPk(procs[p].id)
           r == [procs[p] EXCEPT !.at = now]
       IN  IF row = NoRow
           THEN Answer(p, r, "notfound", 404)
           ELSE IF ~row.isActive
                THEN Answer(p, r, "inactive", 400)
                ELSE Goto(p, r, "write")
    /\ DbUnchanged /\ ClockUnchanged /\ Elsewhere

ExtendWrite(p) ==
    /\ procs[p].op = "extend" /\ procs[p].pc = "write"
    /\ LET r == procs[p] IN
       /\ temporaryEmails' = updateExpiresAt(r.id, generateExpiryDate(r.at, r.ttl), r.at)
       /\ Answer(p, r, "extended", 200)
    /\ UNCHANGED <<receivedEmails, emailAttachments, files, cloud, nextId>> /\ ClockUnchanged /\ Elsewhere

\* ------------------------------------------------ deleteTemporaryEmail
DeleteStart(p, id) ==
    /\ Free(p)
    /\ Goto(p, [Idle EXCEPT !.op = "delete", !.id = id], "read")
    /\ DbUnchanged /\ ClockUnchanged /\ Elsewhere

DeleteRead(p) ==
    /\ procs[p].op = "delete" /\ procs[p].pc = "read"
    /\ LET row == findByPk(procs[p].id)
           r == procs[p]
       IN  IF row = NoRow
           THEN Answer(p, r, "notfound", 404)
           ELSE Goto(p, r, "write")
    /\ DbUnchanged /\ ClockUnchanged /\ Elsewhere

DeleteWrite(p) ==
    /\ procs[p].op = "delete" /\ procs[p].pc = "write"
    /\ temporaryEmails' = updateIsActiveFalse(procs[p].id, now)
    /\ Answer(p, procs[p], "deactivated", 200)
    /\ UNCHANGED <<receivedEmails, emailAttachments, files, cloud, nextId>> /\ ClockUnchanged /\ Elsewhere

\* ------------------------------------------------ getTemporaryEmailById
GetStart(p, id) ==
    /\ Free(p)
    /\ Goto(p, [Idle EXCEPT !.op = "get", !.id = id], "read")
    /\ DbUnchanged /\ ClockUnchanged /\ Elsewhere

GetRead(p) ==
    /\ procs[p].op = "get" /\ procs[p].pc = "read"
    /\ LET row == findByPk(procs[p].id)
           r == procs[p]
       IN  IF row = NoRow
           THEN Answer(p, r, "notfound", 404)
           ELSE IF isExpired(row, now)
                THEN Goto(p, r, "update")
                ELSE Answer(p, r, "found", 200)
    /\ DbUnchanged /\ ClockUnchanged /\ Elsewhere

GetUpdate(p) ==
    /\ procs[p].op = "get" /\ procs[p].pc = "update"
    /\ temporaryEmails' = updateIsActiveFalse(procs[p].id, now)
    /\ Answer(p, procs[p], "expired", 410)
    /\ UNCHANGED <<receivedEmails, emailAttachments, files, cloud, nextId>> /\ ClockUnchanged /\ Elsewhere

\* ------------------------------------------------ getReceivedEmails
ListStart(p, id) ==
    /\ Free(p)
    /\ Goto(p, [Idle EXCEPT !.op = "list", !.id = id], "read")
    /\ DbUnchanged /\ ClockUnchanged /\ Elsewhere

\* TemporaryEmail.findByPk(emailId); 404 when there is none, 410 when the
\* row is inactive or expired, otherwise the page of messages.
ListRead(p) ==
    /\ procs[p].op = "list" /\ procs[p].pc = "read"
    /\ LET row == findByPk(procs[p].id)
           r == procs[p]
       IN  IF row = NoRow
           THEN Answer(p, r, "notfound", 404)
           ELSE IF ~row.isActive \/ isExpired(row, now)
                THEN Answer(p, r, "gone", 410)
                ELSE Answer(p, r, "found", 200)
    /\ DbUnchanged /\ ClockUnchanged /\ Elsewhere

\* ------------------------------------------------ domains
\* createDomain: Domain.create({domain, isActive: true}); the unique index
\* on domain answers a second create with 409.
createDomain(p, domain) ==
    /\ Free(p)
    /\ LET r == [Idle EXCEPT !.op = "createDomain", !.domain = domain] IN
       IF \E d \in domains : d.domain = domain
       THEN /\ Answer(p, r, "duplicate", 409)
            /\ UNCHANGED domains
       ELSE /\ domains' = domains \cup {[domain |-> domain, isActive |-> TRUE]}
            /\ Answer(p, r, "created", 201)
    /\ DbUnchanged /\ ClockUnchanged /\ UNCHANGED scheduler

\* updateDomain: Domain.findByPk(id), 404 when there is none
UpdateDomainStart(p, domain, isActive) ==
    /\ Free(p)
    /\ LET r == [Idle EXCEPT !.op = "updateDomain", !.domain = domain, !.isActive = isActive] IN
       IF \E d \in domains : d.domain = domain
       THEN Goto(p, r, "write")
       ELSE Answer(p, r, "notfound", 404)
    /\ DbUnchanged /\ ClockUnchanged /\ Elsewhere

\* domain.update({isActive})
UpdateDomainWrite(p) ==
    /\ procs[p].op = "updateDomain" /\ procs[p].pc = "write"
    /\ domains' = {IF d.domain = procs[p].domain THEN [d EXCEPT !.isActive = procs[p].isActive] ELSE d :
                     d \in domains}
    /\ Answer(p, procs[p], "updated", 200)
    /\ DbUnchanged /\ ClockUnchanged /\ UNCHANGED scheduler

\* ------------------------------------------------ ingestion: resolution
\* Lines shared by processWebhookEmail and processIncomingEmail: look the
\* recipient up among the active rows, then test isExpired() on the row.
\* "notfound": no active row; "expired": active row past expiresAt;
\* "deliverable": the ingestion goes on.
\* (mutation) the lookup does not test the expiry
resolveIgnoringExpiry(email, t) ==
    IF findOneActive(email) = NoRow THEN "notfound" ELSE "deliverable"

resolve(email, t) ==
    LET row == findOneActive(email)
    IN  IF row = NoRow THEN "notfound"
        ELSE IF isExpired(row, t) THEN "expired"
        ELSE "deliverable"

\* ReceivedEmail.create: the row is inserted, or the create fails: the
\* isEmail validation of fromEmail fails, the foreign key to
\* temporary_emails rejects it when the address row is gone, or the store
\* rejects it.  The table holds at most cap rows.
insertReceivedEmail(addrId, fields, refs, t) ==
    receivedEmails \cup {[id |-> nextId.msg, temporaryEmailId |-> addrId,
                          fromEmail |-> fields.fromEmail, fromName |-> fields.fromName,
                          textContent |-> fields.textContent, htmlContent |-> fields.htmlContent,
                          attachments |-> refs, isRead |-> FALSE, createdAt |-> t]}

canInsertReceivedEmailUpTo(addrId, fields, cap) ==
    /\ nextId.msg <= cap
    /\ isEmail(fields.fromEmail)
    /\ \E r \in temporaryEmails : r.id = addrId

\* ------------------------------------------------ handleGenericWebhook
\* to = "" stands for a missing recipient, hasFrom = FALSE for a missing sender.
WebhookPost(p, to, mail) ==
    /\ Free(p)
    /\ LET r == [Idle EXCEPT !.op = "webhook", !.email = to, !.mail = mail] IN
       IF to = "" \/ mail.from = <<>>
       THEN Answer(p, r, "missing", 400)
       ELSE Goto(p, r, "find")
    /\ DbUnchanged /\ ClockUnchanged /\ Elsewhere

\* A webhook call with a plain sender and no bodies.
WebhookStart(p, to, hasFrom) == WebhookPost(p, to, IF hasFrom THEN PlainMail ELSE NoMail)

\* processWebhookEmail, findOne and the isExpired() test on its reply.
WebhookFind(p) ==
    /\ procs[p].op = "webhook" /\ procs[p].pc = "find"
    /\ LET row == findOneActive(procs[p].email)
           r == [procs[p] EXCEPT !.id = row.id, !.email = ""]
           out == resolve(procs[p].email, now)
       IN  IF out = "notfound" THEN Answer(p, r, "notfound", 400)
           ELSE IF out = "expired" THEN Goto(p, r, "update")
           ELSE Goto(p, r, "create")
    /\ DbUnchanged /\ ClockUnchanged /\ Elsewhere

\* temporaryEmail.update({isActive: false}); return null
WebhookUpdate(p) ==
    /\ procs[p].op = "webhook" /\ procs[p].pc = "update"
    /\ temporaryEmails' = updateIsActiveFalse(procs[p].id, now)
    /\ Answer(p, procs[p], "expired", 400)
    /\ UNCHANGED <<receivedEmails, emailAttachments, files, cloud, nextId>> /\ ClockUnchanged /\ Elsewhere

\* ReceivedEmail.create({..., attachments: []}); a failed insert is caught
\* and processWebhookEmail returns null.
WebhookCreateUpTo(p, cap) ==
    /\ procs[p].op = "webhook" /\ procs[p].pc = "create"
    /\ LET r == procs[p] IN
       \/ /\ canInsertReceivedEmailUpTo(r.id, webhookFields(r.mail), cap)
          /\ receivedEmails' = insertReceivedEmail(r.id, webhookFields(r.mail), <<>>, now)
          /\ nextId' = [nextId EXCEPT !.msg = @ + 1]
          /\ Answer(p, [r EXCEPT !.made = nextId.msg], "stored", 200)
       \/ /\ Answer(p, r, "error", 400)
          /\ UNCHANGED <<receivedEmails, nextId>>
    /\ UNCHANGED <<temporaryEmails, emailAttachments, files, cloud>> /\ ClockUnchanged /\ Elsewhere

WebhookCreate(p) == WebhookCreateUpTo(p, MaxMsgs)

\* ------------------------------------------------ processIncomingEmail
\* processAttachments skips a part without content or file name at once.
skipUnnamed(atts) == SelectSeq(atts, LAMBDA n : n # <<>>)

RawMail(p, email, atts, mail) ==
    /\ Free(p)
    /\ Goto(p, [Idle EXCEPT !.op = "raw", !.email = email, !.atts = atts, !.mail = mail], "find")
    /\ DbUnchanged /\ ClockUnchanged /\ Elsewhere

\* A raw mail with a plain sender and no bodies.
RawStart(p, email, atts) == RawMail(p, email, atts, PlainMail)

RawFind(p) ==
    /\ procs[p].op = "raw" /\ procs[p].pc = "find"
    /\ LET row == findOneActive(procs[p].email)
           r == [procs[p] EXCEPT !.id = row.id, !.email = ""]
           out == resolve(procs[p].email, now)
       IN  IF out = "notfound" THEN Answer(p, [r EXCEPT !.atts = <<>>], "notfound", 0)
           ELSE IF out = "expired" THEN Goto(p, [r EXCEPT !.atts = <<>>], "update")
           ELSE Goto(p, r, "parse")
    /\ DbUnchanged /\ ClockUnchanged /\ Elsewhere

RawUpdate(p) ==
    /\ procs[p].op = "raw" /\ procs[p].pc = "update"
    /\ temporaryEmails' = updateIsActiveFalse(procs[p].id, now)
    /\ Answer(p, procs[p], "expired", 0)
    /\ UNCHANGED <<receivedEmails, emailAttachments, files, cloud, nextId>> /\ ClockUnchanged /\ Elsewhere

\* simpleParser(rawEmail): the parsed mail, or an exception (caught: null).
RawParse(p) ==
    /\ procs[p].op = "raw" /\ procs[p].pc = "parse"
    /\ LET r == [procs[p] EXCEPT !.atts = <<>>, !.todo = skipUnnamed(procs[p].atts)] IN
       \/ Goto(p, r, IF r.todo = <<>> THEN "create" ELSE "attach")
       \/ Answer(p, [r EXCEPT !.todo = <<>>], "error", 0)
    /\ DbUnchanged /\ ClockUnchanged /\ Elsewhere

\* One turn of the loop of processAttachments: fs.writeFile of the next part
\* under <timestamp>_<sanitized name>; a failed write is logged and skipped.
RawAttach(p) ==
    /\ procs[p].op = "raw" /\ procs[p].pc = "attach"
    /\ LET r == procs[p]
           path == <<now, sanitizeFilename(Head(r.todo))>>
           rest == Tail(r.todo)
           pc == IF rest = <<>> THEN "create" ELSE "attach"
       IN  \/ /\ files' = files \cup {path}
              /\ Goto(p, [r EXCEPT !.todo = rest, !.refs = Append(@, path)], pc)
           \/ /\ UNCHANGED files
              /\ Goto(p, [r EXCEPT !.todo = rest, !.failed = @ + 1], pc)
    /\ UNCHANGED <<temporaryEmails, receivedEmails, emailAttachments, cloud, nextId>> /\ ClockUnchanged /\ Elsewhere

\* ReceivedEmail.create({..., attachments: processedAttachments})
RawCreate(p) ==
    /\ procs[p].op = "raw" /\ procs[p].pc = "create"
    /\ LET r == procs[p] IN
       \/ /\ canInsertReceivedEmailUpTo(r.id, rawFields(r.mail), MaxMsgs)
          /\ receivedEmails' = insertReceivedEmail(r.id, rawFields(r.mail), r.refs, now)
          /\ nextId' = [nextId EXCEPT !.msg = @ + 1]
          /\ IF r.refs = <<>>
             THEN Answer(p, [r EXCEPT !.made = nextId.msg], "stored", 0)
             ELSE Goto(p, [r EXCEPT !.made = nextId.msg], "bulk")
       \/ /\ Answer(p, r, "error", 0)
          /\ UNCHANGED <<receivedEmails, nextId>>
    /\ UNCHANGED <<temporaryEmails, emailAttachments, files, cloud>> /\ ClockUnchanged /\ Elsewhere

\* EmailAttachment.bulkCreate(attachmentRecords): one row per stored part,
\* or the store rejects the statement (caught: null is returned).
RawBulk(p) ==
    /\ procs[p].op = "raw" /\ procs[p].pc = "bulk"
    /\ LET r == procs[p] IN
       \/ /\ \E m \in receivedEmails : m.id = r.made
          /\ emailAttachments' = emailAttachments \cup
               {[id |-> nextId.att + i - 1, emailId |-> r.made, filePath |-> r.refs[i],
                 createdAt |-> now] : i \in 1..Len(r.refs)}
          /\ nextId' = [nextId EXCEPT !.att = @ + Len(r.refs)]
          /\ Answer(p, r, "stored", 0)
       \/ /\ Answer(p, r, "error", 0)
          /\ UNCHANGED <<emailAttachments, nextId>>
    /\ UNCHANGED <<temporaryEmails, receivedEmails, files, cloud>> /\ ClockUnchanged /\ Elsewhere

\* ------------------------------------------------ SMTP session (onData)
\* convertAttachmentsToMulterFormat: every part becomes a file, a part
\* without a name is called attachment-<index>.
Digits == <<"0", "1", "2", "3", "4", "5", "6", "7", "8", "9">>
convertAttachmentsToMulterFormat(atts) ==
    [i \in 1..Len(atts) |-> IF atts[i] = <<>> THEN <<"attachment", "-", Digits[i]>> ELSE atts[i]]

\* String.prototype.toLowerCase on an address.
toLowerCase(email) == IF email = "A@x" THEN "a@x" ELSE email

\* extractRecipients: the envelope's RCPT TO addresses, in lower case.
extractRecipients(rcptTo) == [i \in 1..Len(rcptTo) |-> toLowerCase(rcptTo[i])]

SmtpData(p, rcptTo, atts, mail) ==
    /\ Free(p)
    /\ Goto(p, [Idle EXCEPT !.op = "smtp", !.rcpts = extractRecipients(rcptTo), !.atts = atts,
                            !.mail = mail], "parse")
    /\ DbUnchanged /\ ClockUnchanged /\ Elsewhere

\* An SMTP session carrying a mail with a plain sender and no bodies.
SmtpStart(p, rcpts, atts) == SmtpData(p, rcpts, atts, PlainMail)

\* (mutation) the session ends at the first recipient that is not stored
SmtpNextStopOnFailure(p, r, res) ==
    LET q == [r EXCEPT !.todo = convertAttachmentsToMulterFormat(r.atts),
                       !.refs = <<>>, !.failed = 0, !.id = 0, !.made = 0]
    IN  IF r.rcpts = <<>> \/ res \in {"notfound", "expired", "error"}
        THEN /\ procs' = [procs EXCEPT ![p] = Idle]
             /\ reply' = [NoReply EXCEPT !.op = "smtp", !.res = res, !.id = r.id, !.made = r.made,
                                         !.refs = r.refs, !.failed = r.failed, !.session = "accepted"]
        ELSE /\ procs' = [procs EXCEPT ![p] = [q EXCEPT !.pc = IF q.todo = <<>> THEN "find" ELSE "upload"]]
             /\ reply' = [NoReply EXCEPT !.op = "smtp", !.res = res, !.id = r.id, !.made = r.made,
                                         !.refs = r.refs, !.failed = r.failed]

\* The session turns to its next recipient (the head of rcpts), or calls
\* the completion callback without an error when none is left.
SmtpNext(p, r, res) ==
    LET rest == r.rcpts
        q == [r EXCEPT !.todo = convertAttachmentsToMulterFormat(r.atts),
                       !.refs = <<>>, !.failed = 0, !.id = 0, !.made = 0]
    IN  IF rest = <<>>
        THEN /\ procs' = [procs EXCEPT ![p] = Idle]
             /\ reply' = [NoReply EXCEPT !.op = "smtp", !.res = res, !.id = r.id, !.made = r.made,
                                         !.refs = r.refs, !.failed = r.failed, !.session = "accepted"]
        ELSE /\ procs' = [procs EXCEPT ![p] = [q EXCEPT !.pc = IF q.todo = <<>> THEN "find" ELSE "upload"]]
             /\ reply' = [NoReply EXCEPT !.op = "smtp", !.res = res, !.id = r.id, !.made = r.made,
                                         !.refs = r.refs, !.failed = r.failed]

\* simpleParser(stream): an exception ends the session with callback(error).
SmtpParse(p) ==
    /\ procs[p].op = "smtp" /\ procs[p].pc = "parse"
    /\ \/ SmtpNext(p, procs[p], "")
       \/ /\ procs' = [procs EXCEPT ![p] = Idle]
          /\ reply' = [NoReply EXCEPT !.op = "smtp", !.res = "parse", !.session = "rejected"]
    /\ DbUnchanged /\ ClockUnchanged /\ Elsewhere

\* One turn of the loop of processEmailAttachments for the current
\* recipient: uploadToCloudinary under <Date.now()>_<sanitized name>.
SmtpUpload(p) ==
    /\ procs[p].op = "smtp" /\ procs[p].pc = "upload"
    /\ LET r == procs[p]
           publicId == <<now, sanitizeFilename(Head(r.todo))>>
           rest == Tail(r.todo)
           pc == IF rest = <<>> THEN "find" ELSE "upload"
       IN  \/ /\ cloud' = cloud \cup {publicId}
              /\ Goto(p, [r EXCEPT !.todo = rest, !.refs = Append(@, publicId)], pc)
           \/ /\ UNCHANGED cloud
              /\ Goto(p, [r EXCEPT !.todo = rest, !.failed = @ + 1], pc)
    /\ UNCHANGED <<temporaryEmails, receivedEmails, emailAttachments, files, nextId>> /\ ClockUnchanged /\ Elsewhere

\* processWebhookEmail for the current recipient: findOne and isExpired().
SmtpFind(p) ==
    /\ procs[p].op = "smtp" /\ procs[p].pc = "find"
    /\ LET email == Head(procs[p].rcpts)
           row == findOneActive(email)
           r == [procs[p] EXCEPT !.id = row.id, !.rcpts = Tail(@)]
           out == resolve(email, now)
       IN  IF out = "notfound" THEN SmtpNext(p, r, "notfound")
           ELSE IF out = "expired" THEN Goto(p, r, "update")
           ELSE Goto(p, r, "create")
    /\ DbUnchanged /\ ClockUnchanged /\ Elsewhere

SmtpUpdate(p) ==
    /\ procs[p].op = "smtp" /\ procs[p].pc = "update"
    /\ temporaryEmails' = updateIsActiveFalse(procs[p].id, now)
    /\ SmtpNext(p, procs[p], "expired")
    /\ UNCHANGED <<receivedEmails, emailAttachments, files, cloud, nextId>> /\ ClockUnchanged /\ Elsewhere

\* ReceivedEmail.create({..., attachments: []}); the value returned by
\* processWebhookEmail is not looked at by the session.
SmtpCreateUpTo(p, cap) ==
    /\ procs[p].op = "smtp" /\ procs[p].pc = "create"
    /\ LET r == procs[p] IN
       \/ /\ canInsertReceivedEmailUpTo(r.id, webhookFields(smtpMail(r.mail)), cap)
          /\ receivedEmails' = insertReceivedEmail(r.id, webhookFields(smtpMail(r.mail)), <<>>, now)
          /\ nextId' = [nextId EXCEPT !.msg = @ + 1]
          /\ SmtpNext(p, [r EXCEPT !.made = nextId.msg], "stored")
       \/ /\ SmtpNext(p, r, "error")
          /\ UNCHANGED <<receivedEmails, nextId>>
    /\ UNCHANGED <<temporaryEmails, emailAttachments, files, cloud>> /\ ClockUnchanged /\ Elsewhere

SmtpCreate(p) == SmtpCreateUpTo(p, MaxMsgs)

\* ------------------------------------------------ read state of messages
\* ReceivedEmail.findOne({where: {id, temporaryEmailId: emailId}})
findOneReceived(id, emailId) ==
    IF \E m \in receivedEmails : m.id = id /\ m.temporaryEmailId = emailId
    THEN CHOOSE m \in receivedEmails : m.id = id /\ m.temporaryEmailId = emailId
    ELSE NoRow

\* receivedEmail.update({isRead}): UPDATE ... SET is_read WHERE id
updateIsRead(id, isRead) ==
    {IF m.id = id THEN [m EXCEPT !.isRead = isRead] ELSE m : m \in receivedEmails}

\* (mutation) the bulk update is not restricted to the address
updateIsReadTrueEverywhere(emailId) ==
    {[m EXCEPT !.isRead = TRUE] : m \in receivedEmails}

\* ReceivedEmail.update({isRead: true}, {where: {temporaryEmailId, isRead: false}})
updateIsReadTrueWhere(emailId) ==
    {IF m.temporaryEmailId = emailId /\ ~m.isRead THEN [m EXCEPT !.isRead = TRUE] ELSE m :
       m \in receivedEmails}

\* getReceivedEmailById
ReadStart(p, emailId, id) ==
    /\ Free(p)
    /\ Goto(p, [Idle EXCEPT !.op = "read", !.id = emailId, !.made = id], "find")
    /\ DbUnchanged /\ ClockUnchanged /\ Elsewhere

ReadFind(p) ==
    /\ procs[p].op = "read" /\ procs[p].pc = "find"
    /\ LET r == procs[p]
           row == findOneReceived(r.made, r.id)
       IN  IF row = NoRow THEN Answer(p, r, "notfound", 404)
           ELSE IF ~row.isRead THEN Goto(p, r, "update")
           ELSE Answer(p, r, "found", 200)
    /\ DbUnchanged /\ ClockUnchanged /\ Elsewhere

ReadUpdate(p) ==
    /\ procs[p].op = "read" /\ procs[p].pc = "update"
    /\ receivedEmails' = updateIsRead(procs[p].made, TRUE)
    /\ Answer(p, procs[p], "found", 200)
    /\ UNCHANGED <<temporaryEmails, emailAttachments, files, cloud, nextId>> /\ ClockUnchanged /\ Elsewhere

\* markEmailAsRead
MarkStart(p, emailId, id, isRead) ==
    /\ Free(p)
    /\ Goto(p, [Idle EXCEPT !.op = "mark", !.id = emailId, !.made = id, !.isRead = isRead], "find")
    /\ DbUnchanged /\ ClockUnchanged /\ Elsewhere

MarkFind(p) ==
    /\ procs[p].op = "mark" /\ procs[p].pc = "find"
    /\ LET r == procs[p] IN
       IF findOneReceived(r.made, r.id) = NoRow
       THEN Answer(p, r, "notfound", 404)
       ELSE Goto(p, r, "update")
    /\ DbUnchanged /\ ClockUnchanged /\ Elsewhere

MarkUpdate(p) ==
    /\ procs[p].op = "mark" /\ procs[p].pc = "update"
    /\ receivedEmails' = updateIsRead(procs[p].made, procs[p].isRead)
    /\ Answer(p, procs[p], "marked", 200)
    /\ UNCHANGED <<temporaryEmails, emailAttachments, files, cloud, nextId>> /\ ClockUnchanged /\ Elsewhere

\* markAllEmailsAsRead
MarkAllStart(p, emailId) ==
    /\ Free(p)
    /\ Goto(p, [Idle EXCEPT !.op = "markall", !.id = emailId], "find")
    /\ DbUnchanged /\ ClockUnchanged /\ Elsewhere

MarkAllFind(p) ==
    /\ procs[p].op = "markall" /\ procs[p].pc = "find"
    /\ IF findByPk(procs[p].id) = NoRow
       THEN Answer(p, procs[p], "notfound", 404)
       ELSE Goto(p, procs[p], "update")
    /\ DbUnchanged /\ ClockUnchanged /\ Elsewhere

MarkAllUpdate(p) ==
    /\ procs[p].op = "markall" /\ procs[p].pc = "update"
    /\ receivedEmails' = updateIsReadTrueWhere(procs[p].id)
    /\ Answer(p, procs[p], "marked", 200)
    /\ UNCHANGED <<temporaryEmails, emailAttachments, files, cloud, nextId>> /\ ClockUnchanged /\ Elsewhere

\* ------------------------------------------------ sweeps
\* (mutation) the sweep also takes the rows that expire at this very instant
expireRowsInclusive(rows, t) ==
    {IF r.isActive /\ r.expiresAt <= t
     THEN [r EXCEPT !.isActive = FALSE, !.updatedAt = t] ELSE r : r \in rows}

\* UPDATE temporary_emails SET is_active = false, updated_at = t
\* WHERE is_active = true AND expires_at < t
expireRows(rows, t) ==
    {IF r.isActive /\ r.expiresAt < t
     THEN [r EXCEPT !.isActive = FALSE, !.updatedAt = t] ELSE r : r \in rows}

\* SchedulerService.cleanupExpiredEmails (every 5 minutes): one bulk UPDATE.
cleanupExpiredEmails ==
    /\ temporaryEmails' = expireRows(temporaryEmails, now)
    /\ reply' = NoReply
    /\ UNCHANGED <<receivedEmails, emailAttachments, files, cloud, nextId, procs>> /\ ClockUnchanged /\ Elsewhere

\* cutoffDate.setDate(cutoffDate.getDate() - days)
daysAgo(t, days) == t - days * MinutesPerDay

\* (mutation) the attachment rows stay when their message is deleted
cascadeAttachmentsOff(deleted) == emailAttachments

\* Rows of email_attachments that go with the deleted rows of received_emails
\* (ON DELETE CASCADE of the association).
cascadeAttachments(deleted) ==
    {a \in emailAttachments : ~ \E m \in deleted : m.id = a.emailId}

\* (mutation) the message sweep uses the attachment retention of 7 days
cleanupOldReceivedEmailsEarly ==
    /\ LET old == {m \in receivedEmails : m.createdAt < daysAgo(now, AttachmentRetentionDays)} IN
       /\ receivedEmails' = receivedEmails \ old
       /\ emailAttachments' = cascadeAttachments(old)
    /\ reply' = NoReply
    /\ UNCHANGED <<temporaryEmails, files, cloud, nextId, procs>> /\ ClockUnchanged /\ Elsewhere

\* SchedulerService.cleanupOldReceivedEmails (hourly): one bulk DELETE of the
\* rows created more than 30 days ago; nothing is done when there is none.
cleanupOldReceivedEmails ==
    /\ LET old == {m \in receivedEmails : m.createdAt < daysAgo(now, MessageRetentionDays)} IN
       /\ receivedEmails' = receivedEmails \ old
       /\ emailAttachments' = cascadeAttachments(old)
    /\ reply' = NoReply
    /\ UNCHANGED <<temporaryEmails, files, cloud, nextId, procs>> /\ ClockUnchanged /\ Elsewhere

\* The loop of cleanupOldAttachments over the rows found, in id order: the
\* file is unlinked and then the row destroyed.  When the unlink throws (the
\* file is gone, or the rows in fails) the row is kept; when the unlink
\* succeeds and the destroy throws (the rows in stuck) the file is gone and
\* the row is kept; either way the loop goes on with the next row.
RECURSIVE unlinkAndDestroy(_, _, _, _, _)
unlinkAndDestroy(todo, fs, rows, fails, stuck) ==
    IF todo = {} THEN <<fs, rows>>
    ELSE LET a == CHOOSE x \in todo : \A y \in todo : x.id <= y.id IN
         IF a.filePath \in fs /\ a \notin fails
         THEN IF a \in stuck
              THEN unlinkAndDestroy(todo \ {a}, fs \ {a.filePath}, rows, fails, stuck)
              ELSE unlinkAndDestroy(todo \ {a}, fs \ {a.filePath}, rows \ {a}, fails, stuck)
         ELSE unlinkAndDestroy(todo \ {a}, fs, rows, fails, stuck)

\* The attachment rows created more than days days before t.
oldAttachments(rows, t, days) == {a \in rows : a.createdAt < daysAgo(t, days)}

\* EmailProcessingService.cleanupOldAttachments(7) (daily): the attachment
\* rows created more than 7 days ago are found, then handled one by one.
cleanupOldAttachments ==
    /\ LET old == oldAttachments(emailAttachments, now, AttachmentRetentionDays) IN
       \E fails \in SUBSET old : \E stuck \in SUBSET (old \ fails) :
         LET out == unlinkAndDestroy(old, files, emailAttachments, fails, stuck) IN
         /\ files' = out[1]
         /\ emailAttachments' = out[2]
    /\ reply' = NoReply
    /\ UNCHANGED <<temporaryEmails, receivedEmails, cloud, nextId, procs>> /\ ClockUnchanged /\ Elsewhere

\* (mutation) the weekly purge does not look at isActive
performDatabaseMaintenanceAnyRow ==
    /\ LET gone == {r \in temporaryEmails : r.updatedAt < daysAgo(now, InactiveRetentionDays)}
           msgs == {m \in receivedEmails : \E r \in gone : r.id = m.temporaryEmailId}
       IN  /\ temporaryEmails' = temporaryEmails \ gone
           /\ receivedEmails' = receivedEmails \ msgs
           /\ emailAttachments' = cascadeAttachments(msgs)
    /\ reply' = NoReply
    /\ UNCHANGED <<files, cloud, nextId, procs>> /\ ClockUnchanged /\ Elsewhere

\* SchedulerService.performDatabaseMaintenance (weekly):
\* cleanupInactiveTemporaryEmails deletes the rows inactive and not updated
\* for more than 7 days, their messages and attachment rows going with them;
\* logDatabaseStats only counts.
performDatabaseMaintenance ==
    /\ LET gone == {r \in temporaryEmails :
                      ~r.isActive /\ r.updatedAt < daysAgo(now, InactiveRetentionDays)}
           msgs == {m \in receivedEmails : \E r \in gone : r.id = m.temporaryEmailId}
       IN  /\ temporaryEmails' = temporaryEmails \ gone
           /\ receivedEmails' = receivedEmails \ msgs
           /\ emailAttachments' = cascadeAttachments(msgs)
    /\ reply' = NoReply
    /\ UNCHANGED <<files, cloud, nextId, procs>> /\ ClockUnchanged /\ Elsewhere

\* The four sweeps as functions of the stored state S (addresses, messages,
\* attachment rows, attachment files) and the time t of the run, every
\* statement of the run succeeding.
runSweep(k, S, t) ==
    CASE k = "expired" ->
           [S EXCEPT !.addrs = expireRows(@, t)]
      [] k = "messages" ->
           LET old == {m \in S.msgs : m.createdAt < daysAgo(t, MessageRetentionDays)} IN
           [S EXCEPT !.msgs = @ \ old,
                     !.atts = {a \in @ : ~ \E m \in old : m.id = a.emailId}]
      [] k = "attachments" ->
           LET old == oldAttachments(S.atts, t, AttachmentRetentionDays)
               out == unlinkAndDestroy(old, S.blobs, S.atts, {}, {})
           IN  [S EXCEPT !.blobs = out[1], !.atts = out[2]]
      [] k = "inactive" ->
           LET gone == {r \in S.addrs :
                          ~r.isActive /\ r.updatedAt < daysAgo(t, InactiveRetentionDays)}
               msgs == {m \in S.msgs : \E r \in gone : r.id = m.temporaryEmailId}
           IN  [S EXCEPT !.addrs = @ \ gone, !.msgs = @ \ msgs,
                         !.atts = {a \in @ : ~ \E m \in msgs : m.id = a.emailId}]

Ids == 1..MaxAddr
ValidTtls == 1..MaxTtl

CreateOps(customs, ttls) ==
    \E p \in Procs :
        \/ \E c \in customs, t \in ttls : CreateStart(p, c, t)
        \/ CreateFind(p)
        \/ CreateInsert(p)

ExtendOps ==
    \E p \in Procs :
        \/ \E i \in Ids, m \in TtlInputs : ExtendStart(p, i, m)
        \/ ExtendRead(p)
        \/ ExtendWrite(p)

DeleteOps ==
    \E p \in Procs :
        \/ \E i \in Ids : DeleteStart(p, i)
        \/ DeleteRead(p)
        \/ DeleteWrite(p)

GetOps ==
    \E p \in Procs :
        \/ \E i \in Ids : GetStart(p, i)
        \/ GetRead(p)
        \/ GetUpdate(p)

WebhookOps ==
    \E p \in Procs :
        \/ \E to \in Emails \cup {""}, f \in BOOLEAN : WebhookStart(p, to, f)
        \/ WebhookFind(p)
        \/ WebhookUpdate(p)
        \/ WebhookCreate(p)

\* The attachment lists of the mails that arrive: up to n parts each, with
\* file names among names.
Mails(names, n) == SeqsUpTo(names, n)
Recipients == {<<a>> : a \in Emails} \cup {<<a, b>> : a \in Emails, b \in Emails}

RawOps(slots, mails) ==
    \E p \in slots :
        \/ \E to \in Emails, m \in mails : RawStart(p, to, m)
        \/ RawFind(p)
        \/ RawUpdate(p)
        \/ RawParse(p)
        \/ RawAttach(p)
        \/ RawCreate(p)
        \/ RawBulk(p)

SmtpOps(slots, mails) ==
    \E p \in slots :
        \/ \E rs \in Recipients, m \in mails : SmtpStart(p, rs, m)
        \/ SmtpParse(p)
        \/ SmtpUpload(p)
        \/ SmtpFind(p)
        \/ SmtpUpdate(p)
        \/ SmtpCreate(p)

\* The address registry and the webhook: provisioning, extend, deactivate,
\* get-by-id, webhook ingestion, the expiry sweep and the clock.
Next ==
    \/ Tick(1)
    \/ CreateOps(Emails \cup {""}, TtlInputs)
    \/ ExtendOps
    \/ DeleteOps
    \/ GetOps
    \/ WebhookOps
    \/ cleanupExpiredEmails

Spec == Init /\ [][Next]_vars

\* The ingestion entry points against an address that is provisioned,
\* deactivated and swept while mail arrives.
IngestNext ==
    \/ Tick(1)
    \/ CreateOps({"a@x"}, ValidTtls)
    \/ DeleteOps
    \/ WebhookOps
    \/ RawOps(Procs, Mails(FileNames \cup {<<>>}, 1))
    \/ cleanupExpiredEmails

IngestSpec == Init /\ [][IngestNext]_vars

\* SMTP sessions with attachments, one at a time, against an address that
\* is provisioned and expires while mail arrives.
AttachNext ==
    \/ Tick(1)
    \/ CreateOps({"a@x"}, ValidTtls)
    \/ SmtpOps({1}, Mails(FileNames, MaxAtt))

AttachSpec == Init /\ [][AttachNext]_vars

\* The four sweeps over mail that was delivered with attachments, with the
\* clock advancing by minutes, by the attachment retention and by the
\* message retention.
RetentionNext ==
    \/ \E d \in {1, AttachmentRetentionDays * MinutesPerDay, MessageRetentionDays * MinutesPerDay} : Tick(d)
    \/ CreateOps({"a@x"}, ValidTtls)
    \/ RawOps({1}, Mails(FileNames, 1))
    \/ cleanupExpiredEmails
    \/ cleanupOldReceivedEmails
    \/ cleanupOldAttachments
    \/ performDatabaseMaintenance

RetentionSpec == Init /\ [][RetentionNext]_vars

\* Provisioning alone: concurrent createTemporaryEmail calls with requested
\* and with random names, with expiryMinutes at the ends of its range.
ProvisionOps ==
    \E p \in Procs :
        \/ \E c \in Emails \cup {""}, t \in TtlBoundaries : CreateStart(p, c, t)
        \/ CreateFind(p)
        \/ CreateInsertUpTo(p, MaxProvisioned)

ProvisionNext ==
    \/ Tick(1)
    \/ ProvisionOps

ProvisionSpec == Init /\ [][ProvisionNext]_vars

\* Webhook ingestion for the one address against the expiry sweep: the
\* address is provisioned, mails arrive for it while the clock runs and the
\* sweep fires; up to MaxStored messages are stored.
ReapOps ==
    \E p \in Procs :
        \/ WebhookStart(p, "a@x", TRUE)
        \/ WebhookFind(p)
        \/ WebhookUpdate(p)
        \/ WebhookCreateUpTo(p, MaxStored)

ReapNext ==
    \/ Tick(1)
    \/ CreateOps({"a@x"}, ValidTtls)
    \/ ReapOps
    \/ cleanupExpiredEmails

ReapSpec == Init /\ [][ReapNext]_vars

\* SMTP sessions without attachments to one or two recipients, with both
\* addresses provisioned and the clock running.
FanoutOps ==
    \/ \E p \in Procs :
          \/ \E c \in Emails, t \in ValidTtls : CreateStart(p, c, t)
          \/ CreateFind(p)
          \/ CreateInsertUpTo(p, MaxProvisioned)
    \/ \E rs \in Recipients : SmtpStart(1, rs, <<>>)
    \/ SmtpParse(1)
    \/ SmtpFind(1)
    \/ SmtpUpdate(1)
    \/ SmtpCreateUpTo(1, MaxStored)

FanoutNext ==
    \/ Tick(1)
    \/ FanoutOps

FanoutSpec == Init /\ [][FanoutNext]_vars

\* The pieces the HTML bodies of the mails are made of: clean markup, whole
\* script and iframe elements, a javascript: URI and parts of such forms.
Markup == <<"<", "p", ">", "x", "<", "/", "p", ">">>
ScriptElement == <<"<", "s", "c", "r", "i", "p", "t", ">", "a", "<", "/", "s", "c", "r", "i", "p", "t", ">">>
HtmlFragments ==
    {<<"<", "p", ">", "x", "<", "/", "p", ">">>,
     <<"<", "s", "c", "r", "i", "p", "t", ">", "a", "<", "/", "s", "c", "r", "i", "p", "t", ">">>,
     <<"<", "S", "c", "r", "i", "p", "t", ">", "b", "<", "/", "s", "c", "r", "i", "p", "t", ">">>,
     <<"<", "i", "f", "r", "a", "m", "e", ">", "c", "<", "/", "i", "f", "r", "a", "m", "e", ">">>,
     <<"<", "s", "c", "r">>,
     <<"i", "p", "t", ">">>,
     <<"j", "a", "v", "a">>,
     <<"j", "a", "v", "a", "s", "c", "r", "i", "p", "t", ":">>,
     <<"s", "c", "r", "i", "p", "t", ":">>}

RECURSIVE flatten(_)
flatten(ss) == IF ss = <<>> THEN <<>> ELSE Head(ss) \o flatten(Tail(ss))

\* The HTML bodies: none, or up to MaxHtml pieces in a row.
Bodies == {flatten(fs) : fs \in SeqsUpTo(HtmlFragments, MaxHtml)}

\* The From headers: absent, a bare address, a display name with the
\* address in angle brackets.
BareSender == <<"s@y">>
NamedSender == <<"N", " ", "<", "s@y", ">">>
Senders == {<<>>, BareSender, NamedSender}
Texts == {<<>>, <<"t">>}

ContentMails == [from : Senders, html : Bodies, text : Texts]

\* Mails with a sender, a text body and an HTML body for the one address,
\* through the webhook, the raw MIME pipeline and the SMTP listener, one at
\* a time, until the message table is full.
ContentOps ==
    \/ CreateStart(1, "a@x", MaxTtl)
    \/ CreateFind(1)
    \/ CreateInsert(1)
    \/ /\ nextId.msg <= MaxMsgs /\ Free(1)
       /\ \E m \in ContentMails :
             \/ WebhookPost(1, "a@x", m)
             \/ RawMail(1, "a@x", <<>>, m)
             \/ \E rs \in {<<"a@x">>, <<"a@x", "b@x">>} : SmtpData(1, rs, <<>>, m)
    \/ WebhookFind(1)
    \/ WebhookCreate(1)
    \/ RawFind(1)
    \/ RawParse(1)
    \/ RawCreate(1)
    \/ SmtpParse(1)
    \/ SmtpFind(1)
    \/ SmtpCreate(1)

ContentNext == ContentOps

ContentSpec == Init /\ [][ContentNext]_vars

\* One address written in two letter cases.
CaseVariants == {"a@x", "A@x"}

\* Provisioning under either spelling, and mails addressed to either
\* spelling through the webhook and through SMTP.
CaseOps ==
    \/ \E p \in Procs :
          \/ \E c \in CaseVariants : CreateStart(p, c, MaxTtl)
          \/ CreateFind(p)
          \/ CreateInsertUpTo(p, MaxProvisioned)
    \/ \E to \in CaseVariants : WebhookStart(1, to, TRUE)
    \/ WebhookFind(1)
    \/ WebhookCreate(1)
    \/ \E to \in CaseVariants : SmtpStart(1, <<to>>, <<>>)
    \/ SmtpParse(1)
    \/ SmtpFind(1)
    \/ SmtpCreate(1)

CaseNext == CaseOps

CaseSpec == Init /\ [][CaseNext]_vars

\* The read-state operations next to everything else that runs while
\* messages exist: two addresses, up to MaxStored messages, extend,
\* deactivate, the expiry sweep and the clock.  The requests are served
\* one after the other; the clock and the sweep run between the steps of a
\* request.
ReadOps ==
    \E p \in {1} :
        \/ \E a \in 1..MaxProvisioned, m \in 1..MaxStored : ReadStart(p, a, m)
        \/ ReadFind(p)
        \/ ReadUpdate(p)
        \/ \E a \in 1..MaxProvisioned, m \in 1..MaxStored, v \in BOOLEAN : MarkStart(p, a, m, v)
        \/ MarkFind(p)
        \/ MarkUpdate(p)
        \/ \E a \in 1..MaxProvisioned : MarkAllStart(p, a)
        \/ MarkAllFind(p)
        \/ MarkAllUpdate(p)

ReadNext ==
    \/ Tick(1)
    \/ \E c \in Emails : CreateStart(1, c, MaxTtl)
    \/ CreateFind(1)
    \/ CreateInsertUpTo(1, MaxProvisioned)
    \/ \E to \in Emails : WebhookStart(1, to, TRUE)
    \/ WebhookFind(1)
    \/ WebhookUpdate(1)
    \/ WebhookCreateUpTo(1, MaxStored)
    \/ ExtendStart(1, 1, MaxTtl)
    \/ ExtendRead(1)
    \/ ExtendWrite(1)
    \/ DeleteStart(1, 1)
    \/ DeleteRead(1)
    \/ DeleteWrite(1)
    \/ cleanupExpiredEmails
    \/ ReadOps

ReadSpec == Init /\ [][ReadNext]_vars

\* The domains an address can be asked in: the seeded one, one an
\* administrator adds, one that is never known, and none.
DomainNames == {"x", "y"}
RequestedDomains == {"", "x", "y", "z"}

\* The stored state the sweeps work on.
Stored ==
    [addrs |-> temporaryEmails, msgs |-> receivedEmails, atts |-> emailAttachments, blobs |-> files]

\* A running cron task for sweep k exists.
Scheduled(k) == \E t \in scheduler.tasks : t.name = k /\ t.running

\* (mutation) stop() clears the flag and leaves the tasks running
stopLeavingTasks ==
    /\ IF ~scheduler.isRunning
       THEN /\ reply' = [NoReply EXCEPT !.op = "stop", !.res = "notrunning"]
            /\ UNCHANGED scheduler
       ELSE /\ scheduler' = [scheduler EXCEPT !.isRunning = FALSE]
            /\ reply' = [NoReply EXCEPT !.op = "stop", !.res = "stopped"]
    /\ DbUnchanged /\ ClockUnchanged /\ UNCHANGED <<procs, domains>>

\* start(): nothing when already running; otherwise the flag is set and the
\* four sweeps are scheduled.  At most MaxStarts starts take effect.
start ==
    /\ IF scheduler.isRunning
       THEN /\ reply' = [NoReply EXCEPT !.op = "start", !.res = "already"]
            /\ UNCHANGED scheduler
       ELSE /\ Cardinality(scheduler.tasks) < 4 * MaxStarts
            /\ scheduler' = [isRunning |-> TRUE, tasks |-> schedule(scheduler.tasks)]
            /\ reply' = [NoReply EXCEPT !.op = "start", !.res = "started"]
    /\ DbUnchanged /\ ClockUnchanged /\ UNCHANGED <<procs, domains>>

\* stop(): nothing when not running; otherwise every task node-cron keeps is
\* stopped (it stays in cron.getTasks()) and the flag is cleared.
stop ==
    /\ IF ~scheduler.isRunning
       THEN /\ reply' = [NoReply EXCEPT !.op = "stop", !.res = "notrunning"]
            /\ UNCHANGED scheduler
       ELSE /\ scheduler' = [isRunning |-> FALSE,
                             tasks |-> {[t EXCEPT !.running = FALSE] : t \in scheduler.tasks}]
            /\ reply' = [NoReply EXCEPT !.op = "stop", !.res = "stopped"]
    /\ DbUnchanged /\ ClockUnchanged /\ UNCHANGED <<procs, domains>>

\* A running task fires and its sweep runs to its end.
Fire(k) ==
    /\ Scheduled(k)
    /\ LET S == runSweep(k, Stored, now) IN
       /\ temporaryEmails' = S.addrs
       /\ receivedEmails' = S.msgs
       /\ emailAttachments' = S.atts
       /\ files' = S.blobs
    /\ reply' = [NoReply EXCEPT !.op = "sweep", !.res = "done", !.sweep = k]
    /\ UNCHANGED <<cloud, nextId, procs>> /\ ClockUnchanged /\ Elsewhere

\* (mutation) a sweep that throws takes its task down
FireFailsStopping(k) ==
    /\ Scheduled(k)
    /\ reply' = [NoReply EXCEPT !.op = "sweep", !.res = "failed", !.sweep = k]
    /\ scheduler' = [scheduler EXCEPT !.tasks = {IF t.name = k THEN [t EXCEPT !.running = FALSE] ELSE t :
                                                   t \in scheduler.tasks}]
    /\ DbUnchanged /\ ClockUnchanged /\ UNCHANGED <<procs, domains>>

\* A running task fires and its sweep throws at its first statement: the
\* catch of the cron callback logs the error.
FireFails(k) ==
    /\ Scheduled(k)
    /\ reply' = [NoReply EXCEPT !.op = "sweep", !.res = "failed", !.sweep = k]
    /\ DbUnchanged /\ ClockUnchanged /\ UNCHANGED <<procs, domains, scheduler>>

\* The scheduler is started and stopped while its sweeps fire, succeed and
\* fail, next to provisioning and the clock.
SchedulerNext ==
    \/ Tick(1)
    \/ CreateOps({"a@x"}, ValidTtls)
    \/ start
    \/ stop
    \/ \E k \in SweepNames : Fire(k)
    \/ \E k \in SweepNames : FireFails(k)

SchedulerSpec == Init /\ [][SchedulerNext]_vars

\* SMTP sessions with attachments next to webhook calls.
StallNext ==
    \/ Tick(1)
    \/ CreateOps({"a@x"}, ValidTtls)
    \/ SmtpOps({1}, Mails(FileNames, 1))
    \/ WebhookOps

\* The steps of the handler in slot p that wait for nothing but the
\* database and the event loop.  SmtpUpload is left out: it is the answer of
\* the blob store, for which uploadToCloudinary waits without a timeout.
LocalSteps(p) ==
    \/ CreateFind(p) \/ CreateInsert(p)
    \/ SmtpParse(p) \/ SmtpFind(p) \/ SmtpUpdate(p) \/ SmtpCreate(p)
    \/ WebhookFind(p) \/ WebhookUpdate(p) \/ WebhookCreate(p)

\* Every request in flight goes on whenever its next step is up to the
\* process; the blob store answers or not.
StallSpec ==
    /\ Init /\ [][StallNext]_vars
    /\ \A p \in Procs : WF_vars(LocalSteps(p))

\* One address string is provisioned again and again while its record is
\* deactivated, expires and is purged by the weekly sweep.
ReuseNext ==
    \/ \E d \in {1, (InactiveRetentionDays + 1) * MinutesPerDay} : Tick(d)
    \/ \E p \in Procs :
          \/ \E t \in ValidTtls : CreateStart(p, "a@x", t)
          \/ CreateFind(p)
          \/ CreateInsertUpTo(p, MaxProvisioned)
    \/ DeleteOps
    \/ cleanupExpiredEmails
    \/ performDatabaseMaintenance

ReuseSpec == Init /\ [][ReuseNext]_vars

ListOps ==
    \E p \in Procs :
        \/ \E i \in Ids : ListStart(p, i)
        \/ ListRead(p)

\* The two read endpoints of an address that is provisioned, deactivated
\* and expires.
EndpointsNext ==
    \/ Tick(1)
    \/ CreateOps({"a@x"}, ValidTtls)
    \/ DeleteOps
    \/ GetOps
    \/ ListOps
    \/ cleanupExpiredEmails

EndpointsSpec == Init /\ [][EndpointsNext]_vars

\* Provisioning of the name a in a requested domain while domains are
\* added, deactivated and activated again.
DomainOps ==
    \E p \in Procs :
        \/ \E d \in RequestedDomains : CreateRequest(p, "a", d, MaxTtl)
        \/ CreateFind(p)
        \/ CreateInsertUpTo(p, MaxProvisioned)
        \/ createDomain(p, "y")
        \/ \E d \in DomainNames, v \in BOOLEAN : UpdateDomainStart(p, d, v)
        \/ UpdateDomainWrite(p)

DomainNext == DomainOps

DomainSpec == Init /\ [][DomainNext]_vars

\* The steps a request in flight takes after it has started.
Progress ==
    \E p \in Procs :
        \/ CreateFind(p) \/ CreateInsert(p)
        \/ RawFind(p) \/ RawUpdate(p) \/ RawParse(p) \/ RawAttach(p) \/ RawCreate(p) \/ RawBulk(p)

\* The sweeps keep firing, the clock keeps advancing and every request in
\* flight runs to its end.
FairRetentionSpec ==
    /\ RetentionSpec
    /\ WF_vars(cleanupExpiredEmails)
    /\ WF_vars(cleanupOldReceivedEmails)
    /\ WF_vars(cleanupOldAttachments)
    /\ WF_vars(performDatabaseMaintenance)
    /\ WF_vars(\E d \in {1, AttachmentRetentionDays * MinutesPerDay} : Tick(d))
    /\ WF_vars(Progress)

\* ------------------------------------------------------------ properties
Ingesting(p) == procs[p].op \in {"webhook", "raw", "smtp"}

\* Slot p takes this step.
Steps(p) == procs'[p] # procs[p]

\* The recipient of the lookup that slot p is about to make.
Recipient(p) == IF procs[p].op = "smtp" THEN Head(procs[p].rcpts) ELSE procs[p].email

\* No row of the address is active and unexpired at time t (expired as
\* isExpired() has it: t is past expiresAt).
Rejectable(email, t) ==
    \A r \in temporaryEmails : r.email = email => (~r.isActive \/ t > r.expiresAt)

MessagesUnchanged == receivedEmails' = receivedEmails /\ emailAttachments' = emailAttachments

\* C1: an ingestion call whose recipient is absent, inactive or expired when
\* it is looked up returns a failure (null) and, from the lookup to its
\* return, leaves the Message rows and the attachment rows as they were.
C1_RejectedIngestionWritesNothing ==
    [][\A p \in Procs :
         /\ (Ingesting(p) /\ procs[p].pc = "find" /\ Steps(p) /\ Rejectable(Recipient(p), now))
              => /\ MessagesUnchanged
                 /\ \/ procs'[p].pc = "update"
                    \/ procs'[p].pc = "idle" /\ reply'.res = "notfound" /\ reply'.made = 0
         /\ (Ingesting(p) /\ procs[p].pc = "update" /\ Steps(p))
              => /\ MessagesUnchanged
                 /\ reply'.res = "expired" /\ reply'.made = 0]_vars

\* An ingestion was just refused for an address that exists but is inactive,
\* while an earlier message of the address is still stored.
C1_Witness ==
    /\ reply.op = "raw" /\ reply.res = "notfound"
    /\ \E r \in temporaryEmails : ~r.isActive
    /\ receivedEmails # {}

\* The recipient has an active row whose expiresAt has passed at time t.
ActiveButExpired(email, t) ==
    \E r \in temporaryEmails : r.email = email /\ r.isActive /\ t > r.expiresAt

\* The address table after the step differs from the one before only in
\* that row id is inactive (updatedAt, the ORM's bookkeeping column, aside).
OnlyDeactivated(id) ==
    /\ {r.id : r \in temporaryEmails'} = {r.id : r \in temporaryEmails}
    /\ \A r \in temporaryEmails : \A n \in temporaryEmails' :
         n.id = r.id =>
           IF r.id = id
           THEN ~n.isActive /\ n.email = r.email /\ n.expiresAt = r.expiresAt
           ELSE n = r

StoresUnchanged ==
    /\ MessagesUnchanged
    /\ files' = files /\ cloud' = cloud

\* C3: an ingestion that finds an active address past its expiresAt returns
\* the expired outcome, creates no Message, and changes nothing but that
\* address's isActive, which becomes false; an ingestion repeated on the
\* address, now inactive, changes nothing at all.
C3_ExpiredIngestionOnlyDeactivates ==
    [][\A p \in Procs :
         /\ (Ingesting(p) /\ procs[p].pc = "find" /\ Steps(p) /\ ActiveButExpired(Recipient(p), now))
              => /\ procs'[p].pc = "update"
                 /\ procs'[p].id = findOneActive(Recipient(p)).id
                 /\ StoresUnchanged /\ temporaryEmails' = temporaryEmails
         /\ (Ingesting(p) /\ procs[p].pc = "update" /\ Steps(p))
              => /\ reply'.res = "expired" /\ reply'.made = 0
                 /\ StoresUnchanged
                 /\ OnlyDeactivated(procs[p].id)
         /\ (Ingesting(p) /\ procs[p].pc = "find" /\ Steps(p)
               /\ \A r \in temporaryEmails : r.email = Recipient(p) => ~r.isActive)
              => /\ reply'.res = "notfound"
                 /\ StoresUnchanged /\ temporaryEmails' = temporaryEmails]_vars

\* An ingestion has just been refused as expired and its address is inactive.
C3_Witness ==
    /\ reply.op \in {"webhook", "raw"} /\ reply.res = "expired"
    /\ \E r \in temporaryEmails : r.id = reply.id /\ ~r.isActive /\ r.expiresAt < now

\* C9: an ingestion call that reports failure leaves no Message it created,
\* and every stored Message whose ingestion has returned has an attachment
\* row for each attachment it lists.
C9_NoPartialIngestion ==
    /\ (reply.op \in {"webhook", "raw", "smtp"} /\ reply.res # "stored" /\ reply.made # 0)
         => ~ \E m \in receivedEmails : m.id = reply.made
    /\ \A m \in receivedEmails :
         (\A p \in Procs : ~(procs[p].pc = "bulk" /\ procs[p].made = m.id))
           => \A i \in 1..Len(m.attachments) :
                \E a \in emailAttachments : a.emailId = m.id /\ a.filePath = m.attachments[i]

\* The spec's deliverability: an active row of the address with now < expiresAt.
Deliverable(email, t) ==
    \E r \in temporaryEmails : r.email = email /\ r.isActive /\ t < r.expiresAt

\* C2: an ingestion goes on to store a Message if and only if, when the
\* address is checked, isActive = true and now < expiresAt; an ingestion
\* checked at now = expiresAt is rejected.
C2_StoresIffDeliverable ==
    [][\A p \in Procs :
         (Ingesting(p) /\ procs[p].pc = "find" /\ Steps(p))
           => (procs'[p].pc \in {"create", "parse"} <=> Deliverable(Recipient(p), now))]_vars

\* C4: the webhook answers 200 when the message was stored, 400 when the
\* recipient or the sender is missing or the address does not exist, and
\* 410 when the address exists but is expired.
C4_WebhookStatusReflectsOutcome ==
    reply.op = "webhook" =>
        /\ reply.res = "stored" => reply.status = 200
        /\ reply.res \in {"missing", "notfound"} => reply.status = 400
        /\ reply.res = "expired" => reply.status = 410

\* C10: no extend is lost.  When extend reports success, the row it wrote
\* is active and carries the new expiresAt right after the write; and an
\* eager deactivation (ingestion, get-by-id) is never applied to a row
\* that is unexpired by the time it is written.
C10_NoLostExtend ==
    [][\A p \in Procs :
         /\ (procs[p].op = "extend" /\ procs[p].pc = "write" /\ Steps(p) /\ reply'.status = 200)
              => \A r \in temporaryEmails' :
                   r.id = procs[p].id =>
                     r.isActive /\ r.expiresAt = procs[p].at + procs[p].ttl
         /\ (procs[p].op \in {"webhook", "raw", "smtp", "get"} /\ procs[p].pc = "update" /\ Steps(p))
              => \A r \in temporaryEmails :
                   (r.id = procs[p].id /\ r.isActive) => now > r.expiresAt]_vars

\* C5: the attachment store is written for a recipient only after the
\* recipient's address has passed the deliverability check: an ingestion
\* refused as not found or expired has stored no attachment.
C5_NoBlobBeforeDeliverabilityCheck ==
    (reply.op \in {"raw", "smtp"} /\ reply.res \in {"notfound", "expired"})
        => reply.refs = <<>>

\* C8: when exactly one attachment store call of a delivery fails, the
\* Message that is persisted carries the references of the attachments
\* that were stored, in their order.
C8_MessageKeepsStoredAttachments ==
    (reply.op \in {"raw", "smtp"} /\ reply.res = "stored" /\ reply.failed = 1)
        => \E m \in receivedEmails : m.id = reply.made /\ m.attachments = reply.refs

AgedOrphanBlob ==
    \E b \in files \cup cloud :
        /\ b[1] < daysAgo(now, AttachmentRetentionDays)
        /\ \A p \in Procs : \A i \in 1..Len(procs[p].refs) : procs[p].refs[i] # b
        /\ \A m \in receivedEmails : \A i \in 1..Len(m.attachments) : m.attachments[i] # b
        /\ \A a \in emailAttachments : a.filePath # b

\* C7: a blob that ends up referenced by no Message and no attachment row
\* is eventually deleted by the aged-attachment sweep, as long as the sweep
\* keeps running.
C7_OrphanBlobsReclaimed == AgedOrphanBlob ~> ~AgedOrphanBlob

\* The address strings in the table.
Taken == {x.email : x \in temporaryEmails}

\* The row that the provisioning call answered by this step has inserted.
Provisioned(r) == r \in temporaryEmails' \ temporaryEmails /\ r.id = reply'.id

\* C11: after any interleaving of provisioning calls, also of calls that
\* request the same name concurrently, no two Address rows carry the same
\* address string, and a call that reports success has inserted a row whose
\* address no earlier successful call was given.
C11_AddressesAreUnique ==
    [][/\ \A r, q \in temporaryEmails' : r.email = q.email => r = q
       /\ (reply'.op = "create" /\ reply'.res = "created")
            => \E r \in temporaryEmails' : Provisioned(r) /\ r.email \notin Taken]_vars

\* Two calls asked for one name between the lookup and the insert: one has
\* its row, the other was just turned down by the unique index.
C11_Witness ==
    /\ reply.op = "create" /\ reply.res = "duplicate"
    /\ temporaryEmails # {}

\* C12: of two provisioning calls that request the same name, the one that
\* does not get the address always ends the same way, with a Conflict
\* (409), whether it runs after the other call or interleaves with it
\* between the lookup and the insert.
C12_SameNameLoserAlwaysConflicts ==
    [][\A p \in Procs :
         /\ (procs[p].op = "create" /\ procs[p].pc = "find" /\ procs[p].custom # ""
               /\ Steps(p) /\ procs'[p].pc = "idle")
              => reply'.status = 409
         /\ (procs[p].op = "create" /\ procs[p].pc = "insert" /\ Steps(p)
               /\ procs[p].email \in Taken)
              => reply'.status = 409]_vars

\* C13: provisioning looks up at most 10 candidates; the first candidate
\* that is not in the table is the one the Address is created with; the
\* call fails as exhausted, inserting nothing, exactly when the 10th
\* candidate collides as the nine before it did.
C13_AtMostTenCandidates ==
    [][\A p \in Procs :
         /\ (procs[p].op = "create" /\ procs[p].pc = "find" /\ Steps(p))
              => LET n == procs[p].attempts IN
                 /\ n < maxAttempts
                 /\ temporaryEmails' = temporaryEmails
                 /\ procs[p].custom # "" => (procs'[p].pc = "insert" <=> procs[p].custom \notin Taken)
                 /\ procs'[p].pc = "insert" => procs'[p].email \notin Taken
                 /\ procs'[p].pc = "find"
                      => Taken # {} /\ procs'[p].attempts = n + 1 /\ n + 1 < maxAttempts
                 /\ procs'[p].pc = "idle"
                      => Taken # {} /\ reply'.res = "exhausted" /\ n + 1 = maxAttempts
         /\ (procs[p].op = "create" /\ procs[p].pc = "insert" /\ Steps(p) /\ reply'.res = "created")
              => \E r \in temporaryEmails' : Provisioned(r) /\ r.email = procs[p].email]_vars

\* A provisioning call has just given up after its tenth collision.
C13_Witness ==
    /\ reply.op = "create" /\ reply.res = "exhausted" /\ reply.status = 500
    /\ temporaryEmails # {}

\* C14: a provisioning call goes past validation only with
\* 1 <= expiryMinutes <= 1440; a call turned down by validation inserts no
\* row; an accepted call that succeeds inserts an active row whose
\* expiresAt is the time of the call plus expiryMinutes, not a clamped value.
C14_TtlValidatedNotClamped ==
    [][\A p \in Procs :
         /\ procs'[p].op = "create"
              => procs'[p].ttl \in MinExpiryMinutes..MaxExpiryMinutes
         /\ (reply'.op = "create" /\ reply'.res = "validation")
              => temporaryEmails' = temporaryEmails /\ reply'.status = 400
         /\ (procs[p].op = "create" /\ procs[p].pc = "insert" /\ Steps(p) /\ reply'.res = "created")
              => \E r \in temporaryEmails' :
                   /\ Provisioned(r) /\ r.isActive
                   /\ r.expiresAt = procs[p].at + procs[p].ttl
                   /\ procs[p].at <= now]_vars

\* An address was just provisioned with the longest accepted lifetime.
C14_Witness ==
    /\ reply.op = "create" /\ reply.res = "created"
    /\ \E r \in temporaryEmails :
         r.id = reply.id /\ r.isActive /\ r.expiresAt = r.updatedAt + MaxExpiryMinutes

\* The address table after the step has the rows it had before.
SameAddresses == {r.id : r \in temporaryEmails'} = {r.id : r \in temporaryEmails}

\* C15: extend on an address with isActive = false fails and changes
\* nothing; on an address with isActive = true it writes expiresAt =
\* now + minutes (the old value is replaced, not added to) and leaves
\* isActive, the address string, every other address and every Message
\* as they were.
C15_ExtendReplacesExpiry ==
    [][\A p \in Procs :
         /\ (procs[p].op = "extend" /\ procs[p].pc = "read" /\ Steps(p))
              => LET row == findByPk(procs[p].id) IN
                 /\ temporaryEmails' = temporaryEmails /\ MessagesUnchanged
                 /\ (row # NoRow /\ ~row.isActive)
                      => reply'.res = "inactive" /\ reply'.status = 400
                 /\ (row # NoRow /\ row.isActive)
                      => procs'[p].pc = "write" /\ procs'[p].at = now
         /\ (procs[p].op = "extend" /\ procs[p].pc = "write" /\ Steps(p))
              => /\ reply'.res = "extended" /\ reply'.status = 200
                 /\ MessagesUnchanged /\ SameAddresses
                 /\ \A r \in temporaryEmails : \A n \in temporaryEmails' :
                      n.id = r.id =>
                        IF r.id = procs[p].id
                        THEN /\ n.expiresAt = procs[p].at + procs[p].ttl
                             /\ n.isActive = r.isActive /\ n.email = r.email
                        ELSE n = r]_vars

\* An address that holds a message was just extended, later than it was
\* provisioned, and is active with the new expiresAt.
C15_Witness ==
    /\ reply.op = "extend" /\ reply.res = "extended"
    /\ \E r \in temporaryEmails :
         /\ r.id = reply.id /\ r.isActive
         /\ r.updatedAt > 0 /\ r.expiresAt = r.updatedAt + MaxTtl
         /\ \E m \in receivedEmails : m.temporaryEmailId = r.id

\* C16: deactivate on an existing address leaves it with isActive = false,
\* removes neither the Address row nor any Message, and answers success;
\* on an address that is inactive already it answers the same success and
\* leaves the same state (updatedAt, the ORM's bookkeeping column, aside).
C16_DeactivateIdempotent ==
    [][\A p \in Procs :
         /\ (procs[p].op = "delete" /\ procs[p].pc = "read" /\ Steps(p))
              => /\ temporaryEmails' = temporaryEmails /\ MessagesUnchanged
                 /\ findByPk(procs[p].id) # NoRow => procs'[p].pc = "write"
         /\ (procs[p].op = "delete" /\ procs[p].pc = "write" /\ Steps(p))
              => /\ reply'.res = "deactivated" /\ reply'.status = 200
                 /\ MessagesUnchanged
                 /\ OnlyDeactivated(procs[p].id)]_vars

\* Deactivate has just answered success for an unexpired address that holds
\* a message, and a second deactivate of the same address, now inactive, is
\* about to write.
C16_Witness ==
    /\ reply.op = "delete" /\ reply.res = "deactivated"
    /\ \E r \in temporaryEmails :
         /\ r.id = reply.id /\ ~r.isActive /\ r.expiresAt > now
         /\ \E m \in receivedEmails : m.temporaryEmailId = r.id
    /\ \E p \in Procs : procs[p].op = "delete" /\ procs[p].pc = "write" /\ procs[p].id = reply.id

\* C17: after the expiry sweep has run at time t no address has
\* isActive = true with expiresAt < t; every address that was inactive or
\* had expiresAt >= t is unchanged, the others keep their address string
\* and expiresAt; and a second run at once changes nothing.
C17_ExpirySweepExactAndIdempotent ==
    [][cleanupExpiredEmails =>
         /\ \A n \in temporaryEmails' : ~(n.isActive /\ n.expiresAt < now)
         /\ SameAddresses /\ MessagesUnchanged
         /\ \A r \in temporaryEmails :
              IF ~r.isActive \/ r.expiresAt >= now
              THEN r \in temporaryEmails'
              ELSE \E n \in temporaryEmails' :
                     n.id = r.id /\ ~n.isActive /\ n.email = r.email /\ n.expiresAt = r.expiresAt
         /\ expireRows(temporaryEmails', now) = temporaryEmails']_vars

\* The sweep has run: an expired address is inactive since this instant,
\* with no request in flight.
C17_Witness ==
    /\ reply = NoReply
    /\ \A p \in Procs : procs[p].pc = "idle"
    /\ \E r \in temporaryEmails : ~r.isActive /\ r.expiresAt < now /\ r.updatedAt = now

\* C18: no sweep removes an active Address row: the expiry sweep, the
\* message sweep and the attachment sweep remove no Address row at all,
\* and a row is removed only when it is inactive and was last written more
\* than 7 days ago; since a deactivation stamps updatedAt, no row goes back
\* to active and updatedAt never decreases, such a row has been inactive
\* for more than 7 days without a break.
C18_OnlyLongInactivePurged ==
    [][/\ (cleanupExpiredEmails \/ cleanupOldReceivedEmails \/ cleanupOldAttachments) => SameAddresses
       /\ \A r \in temporaryEmails :
            /\ (r.id \notin {n.id : n \in temporaryEmails'})
                 => ~r.isActive /\ r.updatedAt < now - InactiveRetentionDays * MinutesPerDay
            /\ \A n \in temporaryEmails' :
                 n.id = r.id =>
                   /\ ~r.isActive => ~n.isActive
                   /\ (r.isActive /\ ~n.isActive) => n.updatedAt = now
                   /\ n.updatedAt >= r.updatedAt]_vars

\* An address that never received mail has been purged.
C18_Witness ==
    /\ temporaryEmails = {} /\ nextId.addr > 1
    /\ nextId.msg = 1

\* C19: in every state every Message row references an Address row that
\* exists and every attachment row references a Message row that exists,
\* whatever the interleaving of ingestion with the weekly purge (which
\* takes the Messages of a purged Address along) and the message sweep
\* (which takes the attachment rows of a deleted Message along).
C19_ReferentialIntegrity ==
    /\ \A m \in receivedEmails : \E r \in temporaryEmails : r.id = m.temporaryEmailId
    /\ \A a \in emailAttachments : \E m \in receivedEmails : m.id = a.emailId

\* An address that had received mail with an attachment has been purged,
\* and nothing of it is left.
C19_Witness ==
    /\ temporaryEmails = {} /\ nextId.addr > 1
    /\ nextId.msg > 1 /\ nextId.att > 1
    /\ receivedEmails = {} /\ emailAttachments = {}

\* C20: the message sweep run at time t deletes exactly the Message rows
\* created more than 30 days before t, and the attachment rows of those;
\* every younger Message, its attachment rows and every Address are
\* unchanged.
C20_MessageSweepExact ==
    [][cleanupOldReceivedEmails =>
         LET old == {m \in receivedEmails : m.createdAt < now - MessageRetentionDays * MinutesPerDay} IN
         /\ receivedEmails' = receivedEmails \ old
         /\ emailAttachments' = {a \in emailAttachments : \A m \in old : a.emailId # m.id}
         /\ temporaryEmails' = temporaryEmails]_vars

\* The message sweep has deleted the one message of an address that is
\* still there.
C20_Witness ==
    /\ receivedEmails = {} /\ nextId.msg > 1
    /\ temporaryEmails # {}
    /\ now > MessageRetentionDays * MinutesPerDay

C23_IngestionVsReapOutcomes ==
    [][/\ \A p \in Procs :
            (procs[p].op = "webhook" /\ procs[p].pc = "find" /\ procs'[p] # procs[p])
              => /\ Deliverable(procs[p].email, now) => procs'[p].pc = "create"
                 /\ procs'[p].pc = "create"
                      => \E r \in temporaryEmails :
                            /\ r.email = procs[p].email /\ r.isActive /\ now <= r.expiresAt
                            /\ procs'[p].id = r.id
                 /\ (\A r \in temporaryEmails : r.email = procs[p].email => ~r.isActive)
                      => reply'.res = "notfound"
       /\ IF reply'.op = "webhook" /\ reply'.res = "stored"
          THEN \E m \in receivedEmails' :
                 /\ receivedEmails' = receivedEmails \cup {m}
                 /\ \A o \in receivedEmails : o.id # m.id
                 /\ m.id = reply'.made /\ m.temporaryEmailId = reply'.id
                 /\ \E p \in Procs : procs[p].op = "webhook" /\ procs[p].pc = "create"
                                       /\ procs[p].id = reply'.id /\ procs'[p].pc = "idle"
          ELSE UNCHANGED receivedEmails
       /\ (temporaryEmails' # temporaryEmails /\ UNCHANGED procs)
            => UNCHANGED <<receivedEmails, nextId>>]_vars

\* An ingestion has stored its message after the sweep deactivated the
\* address, while a second ingestion that also saw the address deliverable
\* is still about to store.
C23_Witness ==
    /\ reply.op = "webhook" /\ reply.res = "stored"
    /\ \E p \in Procs, r \in temporaryEmails :
          /\ procs[p].op = "webhook" /\ procs[p].pc = "create" /\ procs[p].id = r.id
          /\ r.id = reply.id /\ ~r.isActive /\ r.expiresAt < now
\* A step of the SMTP session in slot p.
SmtpSteps(p) == procs[p].op = "smtp" /\ procs'[p] # procs[p]

\* C24: an SMTP session looks up its declared recipients one by one, each
\* exactly once and in order, and ends only when none is left; a recipient
\* that is deliverable at its lookup goes on to the create, and the message
\* stored for it is bound to that recipient's own address; no step of the
\* session removes or changes a stored message, and a recipient that fails
\* (not found, expired, create failed) leaves the messages as they are and
\* the session goes on with the recipients that remain.
C24_FanoutPerRecipient ==
    [][\A p \in Procs : SmtpSteps(p) =>
         LET r == procs[p]
             ends == procs'[p].pc = "idle"
             left == IF r.pc = "find" THEN Tail(r.rcpts) ELSE r.rcpts IN
         /\ receivedEmails \subseteq receivedEmails'
         /\ r.pc = "parse" /\ reply'.session # "rejected"
              => procs'[p].pc = "find" /\ procs'[p].rcpts = r.rcpts
         /\ r.pc = "find"
              => /\ Deliverable(Head(r.rcpts), now) => procs'[p].pc = "create"
                 /\ procs'[p].pc \in {"create", "update"}
                      => /\ procs'[p].rcpts = left
                         /\ \E a \in temporaryEmails :
                               a.email = Head(r.rcpts) /\ a.id = procs'[p].id
         /\ r.pc \in {"find", "update", "create"} /\ reply'.op = "smtp"
              => /\ ends <=> left = <<>>
                 /\ ~ends => procs'[p].pc = "find" /\ procs'[p].rcpts = left
                 /\ IF reply'.res = "stored"
                    THEN \E m \in receivedEmails' \ receivedEmails :
                           /\ receivedEmails' = receivedEmails \cup {m}
                           /\ m.temporaryEmailId = r.id
                    ELSE UNCHANGED receivedEmails]_vars

\* The first recipient of a session has just failed and the session is at
\* the lookup of the next one, which is deliverable.
C24_Witness ==
    /\ reply.op = "smtp" /\ reply.res \in {"notfound", "expired", "error"}
    /\ procs[1].op = "smtp" /\ procs[1].pc = "find"
    /\ Deliverable(Head(procs[1].rcpts), now)
\* C25: the completion callback of an SMTP session is called with an error
\* when the MIME parse failed or the ingestion of a declared recipient
\* failed; a session whose last recipient was not found, was expired or
\* could not be stored is therefore never completed without an error.
C25_CallbackErrorOnAnyFailure ==
    (reply.op = "smtp" /\ reply.res \in {"parse", "notfound", "expired", "error"})
      => reply.session # "accepted"
\* A piece of active content in an HTML body: the opening tag of a script
\* or iframe element, or "javascript:", in any letter case.
hasActiveContent(html) ==
    \E i \in 1..Len(html) :
        \/ matchesAt(html, i, ScriptOpen)
        \/ matchesAt(html, i, IframeOpen)
        \/ matchesAt(html, i, JavascriptUri)

\* C26: in every reachable state no stored message has an htmlContent with
\* an opening script tag, an opening iframe tag or "javascript:" in it (in
\* any letter case), whatever the HTML body of the mail was, nested and
\* split forms included, and whichever entry point it came through.
C26_NoActiveContentStored ==
    \A m \in receivedEmails : ~hasActiveContent(m.htmlContent)
\* Bodies without active content that stand before and after a script.
CleanParts == {<<>>, Markup, Markup \o Markup}

\* C27: when an ingestion stores a message, the stored text body is the
\* text body of the mail and an absent HTML body is stored as absent
\* whatever the text is; for an HTML body M1 + <script>a</script> + M2 with
\* M1 and M2 free of active content the stored htmlContent is M1 + M2.
C27_ScriptRemovedMarkupKept ==
    [][\A p \in Procs :
         (procs[p].pc = "create" /\ procs'[p] # procs[p] /\ reply'.res = "stored")
           => \E m \in receivedEmails' \ receivedEmails :
                /\ m.id = reply'.made
                /\ m.textContent = procs[p].mail.text
                /\ procs[p].mail.html = <<>> => m.htmlContent = <<>>
                /\ \A M1 \in CleanParts, M2 \in CleanParts :
                     procs[p].mail.html = M1 \o ScriptElement \o M2
                       => m.htmlContent = M1 \o M2]_vars

\* An SMTP session has stored, for its first recipient, a mail whose HTML
\* body is markup, a script element and markup again, with a text body.
C27_Witness ==
    /\ reply.op = "smtp" /\ reply.res = "stored"
    /\ procs[1].op = "smtp"
    /\ procs[1].mail.html = Markup \o ScriptElement \o Markup
    /\ procs[1].mail.text = <<"t">>
    /\ \E m \in receivedEmails :
          m.id = reply.made /\ m.htmlContent = Markup \o Markup /\ m.textContent = <<"t">>

\* The columns the ingestion in slot p gives the row it is about to store.
fieldsOf(p) ==
    IF procs[p].op = "raw" THEN rawFields(procs[p].mail)
    ELSE IF procs[p].op = "smtp" THEN webhookFields(smtpMail(procs[p].mail))
    ELSE webhookFields(procs[p].mail)

\* C28: an ingestion through the webhook or the SMTP listener that has
\* found the address deliverable and is about to store a mail whose sender
\* is "N <s@y>" stores fromEmail = s@y and fromName = N, and for the bare
\* sender s@y it stores fromEmail = s@y and no name; in both cases the
\* sender passes the validation of the fromEmail column, so the create is
\* not refused because of the sender's format.
C28_SenderParsedNeverDropped ==
    \A p \in Procs :
        (procs[p].pc = "create" /\ procs[p].op \in {"webhook", "smtp"}
           /\ procs[p].mail.from \in {BareSender, NamedSender})
          => /\ isEmail(fieldsOf(p).fromEmail)
             /\ fieldsOf(p).fromEmail = <<"s@y">>
             /\ fieldsOf(p).fromName = IF procs[p].mail.from = NamedSender THEN <<"N">> ELSE <<>>
\* C29: address identity is case-insensitive: no two address records
\* differ only in letter case, and a webhook or SMTP ingestion that is at
\* its lookup finds the live address whenever its recipient is a case
\* variant of it.
C29_AddressIdentityIgnoresCase ==
    /\ \A r1 \in temporaryEmails, r2 \in temporaryEmails :
          toLowerCase(r1.email) = toLowerCase(r2.email) => r1 = r2
    /\ \A p \in Procs :
          (procs[p].op \in {"webhook", "smtp"} /\ procs[p].pc = "find")
            => LET to == IF procs[p].op = "smtp" THEN Head(procs[p].rcpts) ELSE procs[p].email IN
               (\E r \in temporaryEmails : r.isActive /\ toLowerCase(r.email) = toLowerCase(to))
                 => findOneActive(to) # NoRow
\* The step is the write of a read-state operation that covers message m.
TogglesReadStateOf(m) ==
    \E p \in Procs :
        /\ procs[p].pc = "update" /\ procs'[p].pc = "idle"
        /\ \/ procs[p].op \in {"read", "mark"} /\ procs[p].made = m.id
           \/ procs[p].op = "markall" /\ procs[p].id = m.temporaryEmailId

\* C30: a message is created unread, and under every operation (extend,
\* deactivate, the expiry sweep, the deactivation of an expired address at
\* an ingestion, the read-state operations) a stored message keeps its
\* address id, sender, bodies, attachment list and creation time; only
\* isRead changes, and only in the write of a read-state operation on
\* that message or of mark-all-read on its own address.
C30_OnlyReadStateChanges ==
    [][/\ \A m \in receivedEmails :
            \E n \in receivedEmails' :
               /\ n.id = m.id
               /\ [n EXCEPT !.isRead = m.isRead] = m
               /\ n.isRead # m.isRead => TogglesReadStateOf(m)
       /\ \A n \in receivedEmails' :
            (\A m \in receivedEmails : m.id # n.id) => ~n.isRead]_vars

\* Mark-all-read on one address has answered: a message of that address
\* is read and a message of the other address is still unread.
C30_Witness ==
    /\ reply.op = "markall" /\ reply.res = "marked"
    /\ \E m \in receivedEmails, o \in receivedEmails :
          /\ m.temporaryEmailId = reply.id /\ m.isRead
          /\ o.temporaryEmailId # reply.id /\ ~o.isRead
\* C31: every address record is created with a domain that is in the set
\* of active domains when the record is created: in every step the rows
\* new in temporary_emails carry the name of a domain that is active.
C31_DomainActiveAtCreation ==
    [][\A r \in temporaryEmails' \ temporaryEmails :
         \E d \in domains : d.domain = r.domain /\ d.isActive]_vars
\* C32: no store of an attachment reuses a storage locator: when a step of
\* an ingestion stores a blob, the locator it stores it under is not yet
\* the locator of a stored blob, so that no blob is overwritten.
C32_LocatorsNeverReused ==
    [][\A p \in Procs :
         Len(procs'[p].refs) > Len(procs[p].refs)
           => LET locator == procs'[p].refs[Len(procs'[p].refs)] IN
              /\ procs[p].op = "smtp" => locator \notin cloud
              /\ procs[p].op = "raw" => locator \notin files]_vars
\* The cron tasks that are running.
RunningTasks == {t \in scheduler.tasks : t.running}

\* C35: after any sequence of start() and stop() calls exactly four sweep
\* tasks are running, one for each sweep, when isRunning is true, and none
\* when it is false; start() while running and stop() while stopped change
\* nothing.
C35_FourTasksIffRunning ==
    /\ scheduler.isRunning
         => /\ Cardinality(RunningTasks) = 4
            /\ \A k \in SweepNames : \E t \in RunningTasks : t.name = k
    /\ ~scheduler.isRunning => RunningTasks = {}
    /\ reply.res \in {"already", "notrunning"}
         => (scheduler.isRunning <=> reply.res = "already")

\* The scheduler has been stopped and started again.
C35_Witness ==
    /\ reply.op = "start" /\ reply.res = "started"
    /\ scheduler.isRunning /\ Cardinality(scheduler.tasks) > 4

\* C33: a sweep execution that fails leaves the scheduler as it is: it is
\* still running and a running task exists for each of the four sweeps,
\* the failed one included, so each fires again at its next tick.
C33_FailedSweepKeepsScheduler ==
    [][(reply'.op = "sweep" /\ reply'.res = "failed")
         => /\ scheduler' = scheduler /\ scheduler'.isRunning
            /\ \A k \in SweepNames : \E t \in scheduler'.tasks : t.name = k /\ t.running]_vars

\* The expiry sweep has failed while an expired address is still active,
\* and it is still scheduled.
C33_Witness ==
    /\ reply.op = "sweep" /\ reply.res = "failed" /\ reply.sweep = "expired"
    /\ Scheduled("expired")
    /\ \E r \in temporaryEmails : r.isActive /\ r.expiresAt < now
\* C39: get-address-by-id and list-messages answer 410 in the same states:
\* neither answers 200 for an address that is inactive or expired, and
\* neither answers 410 for one that is deliverable.
C39_ReadEndpointsAgree ==
    reply.op \in {"get", "list"} /\ reply.status \in {200, 410}
      => LET row == findByPk(reply.id) IN
         (reply.status = 200) <=> (row.isActive /\ ~isExpired(row, now))
\* C38: extend on a row that is active but past its expiresAt is not
\* refused, and its write makes the address deliverable again: an ingestion
\* that resolved the address as expired before the write resolves it as
\* deliverable after it (as long as the new lifetime has not run out too).
C38_ExtendRevivesExpired ==
    [][\A p \in Procs :
         LET row == findByPk(procs[p].id)
             exp == procs[p].at + procs[p].ttl
         IN  (procs[p].op = "extend" /\ procs'[p] # procs[p]
                /\ row # NoRow /\ row.isActive /\ isExpired(row, now))
               => /\ procs[p].pc = "read" => procs'[p].pc = "write"
                  /\ procs[p].pc = "write"
                       => /\ reply'.op = "extend" /\ reply'.status = 200
                          /\ resolve(row.email, now) = "expired"
                          /\ now <= exp
                               => \E after \in temporaryEmails' :
                                     /\ after.id = row.id /\ after.email = row.email
                                     /\ after.isActive /\ ~isExpired(after, now)]_vars

\* An ingestion has found the address expired and has not yet answered;
\* meanwhile an extend of that address has succeeded and the address is
\* deliverable.
C38_Witness ==
    /\ reply.op = "extend" /\ reply.res = "extended"
    /\ \E p \in Procs : procs[p].op = "webhook" /\ procs[p].pc = "update" /\ procs[p].id = reply.id
    /\ LET row == findByPk(reply.id) IN
       row.isActive /\ resolve(row.email, now) = "deliverable"
\* C36: once a row has isActive = FALSE no step sets it back to TRUE, and
\* the only later change to the row is its deletion: while it exists its
\* address, domain, isActive and expiresAt stay as they are.
C36_InactiveRowsFrozen ==
    [][\A r \in temporaryEmails :
         ~r.isActive
           => \A after \in temporaryEmails' :
                after.id = r.id
                  => /\ ~after.isActive
                     /\ after.email = r.email /\ after.domain = r.domain
                     /\ after.expiresAt = r.expiresAt]_vars
\* C37: a record is created for an address only when no record with that
\* address exists, whatever the state of the existing one, and no step of a
\* provisioning request changes or removes an existing record; so the
\* address can be provisioned again only after its record has been deleted.
C37_AddressTakenWhileRecordExists ==
    [][/\ \A r \in temporaryEmails' :
            (\A old \in temporaryEmails : old.id # r.id)
              => \A old \in temporaryEmails : old.email # r.email
       /\ (\E p \in Procs : procs[p].op = "create" /\ procs'[p] # procs[p])
            => temporaryEmails \subseteq temporaryEmails']_vars

\* A provisioning request for an address whose record is inactive and not
\* yet purged has been refused.
C37_Witness ==
    /\ reply.op = "create" /\ reply.res \in {"exhausted", "duplicate"}
    /\ \E r \in temporaryEmails : r.email = "a@x" /\ ~r.isActive
\* C34: every ingestion invocation eventually completes, stored or failed:
\* an SMTP session or webhook call in flight eventually leaves its slot,
\* also when the blob store does not answer a store call.
C34_IngestionCompletes ==
    \A p \in Procs : (procs[p].op \in {"smtp", "webhook"}) ~> (procs[p].pc = "idle")
====
